---- MODULE Spec2Model ----
(***************************************************************************)
(* A model of the perky configuration-format library: src/perky/utility.py *)
(* (merge_dicts_and_lists), src/perky/tokenize.py (pushback_str_iterator,  *)
(* tokenize, LineParser) and src/perky/__init__.py (Parser, Serializer,    *)
(* loads, dumps, pragma_include).                                          *)
(*                                                                         *)
(* A Python str is a sequence of one-character strings.  A dict or a list  *)
(* is an object of the heap, a sequence indexed by object identity; a slot *)
(* of a container holds either a str by value, [str |-> s], or a reference *)
(* to another object, [ref |-> id].  A dict keeps its items as a sequence  *)
(* of <<key, slot>> pairs in insertion order, as a Python dict does.       *)
(***************************************************************************)
EXTENDS Integers, Sequences, FiniteSets, TLC

VARIABLES
    heap,       \* the objects (dicts and lists) alive, indexed by identity
    mroots,     \* merge: the identities passed to merge_dicts_and_lists
    mheap0,     \* merge: the heap as it was when merge_dicts_and_lists was called
    mresult,    \* merge: [r |-> slot returned, err |-> exception raised or "none"]
    mpc,        \* merge: "idle" (not this specification), "call" or "done"
    parser,     \* loads: the Parser and its LineParser, [pc |-> "idle"] elsewhere
    trip,       \* round trip: d, dumps(d), loads of it, dumps of that; [pc |-> "idle"] elsewhere
    cursor,     \* cursor: a pushback_str_iterator and the calls made on it; [pc |-> "idle"] elsewhere
    lexer,      \* tokenize: the generator on one line, turn by turn; [pc |-> "idle"] elsewhere
    reader      \* line parser: a LineParser and the calls made on it; [pc |-> "idle"] elsewhere

mergeVars == <<mroots, mheap0, mresult, mpc>>
vars == <<heap, mroots, mheap0, mresult, mpc, parser, trip, cursor, lexer, reader>>

(***************************************************************************)
(* Values                                                                  *)
(***************************************************************************)
NoneVal == [none |-> TRUE]

Str(s) == [str |-> s]

IsStr(v) == DOMAIN v = {"str"}

IsRef(v) == DOMAIN v = {"ref"}

\* The keys of a dict's items, as a set.
KeysOf(items) == {items[i][1] : i \in 1..Len(items)}

\* key in d
DictHas(items, k) == \E i \in 1..Len(items) : items[i][1] = k

\* d[key]
DictGet(items, k) == items[CHOOSE i \in 1..Len(items) : items[i][1] = k][2]

\* d[key] = value: an existing key keeps its place, a new key is appended.
DictSet(items, k, v) ==
    IF DictHas(items, k)
    THEN [i \in 1..Len(items) |-> IF items[i][1] = k THEN <<k, v>> ELSE items[i]]
    ELSE Append(items, <<k, v>>)

NewDict(items) == [kind |-> "dict", items |-> items]

NewList(items) == [kind |-> "list", items |-> items]

\* type(value) for a slot: "str", "dict" or "list".
TypeOf(h, v) == IF IsStr(v) THEN "str" ELSE h[v.ref].kind

\* The value a slot denotes, compared as Python's == compares: a dict as a
\* function of its keys (insertion order is not part of equality), a list
\* as a sequence.
RECURSIVE TreeOf(_, _)
TreeOf(h, v) ==
    IF IsStr(v) THEN v
    ELSE LET o == h[v.ref] IN
         IF o.kind = "dict"
         THEN [dict |-> [k \in KeysOf(o.items) |-> TreeOf(h, DictGet(o.items, k))]]
         ELSE [list |-> [i \in 1..Len(o.items) |-> TreeOf(h, o.items[i])]]

\* The element of a one-element set.  Only({e(x) : x \in {v}}) evaluates v
\* once and names its value x in e.
Only(set) == CHOOSE x \in set : TRUE

\* Builds a literal tree, [str |-> s], [d |-> <<<<key, tree>>, ...>>] or
\* [l |-> <<tree, ...>>], on the heap: the result is the heap and the slot.
RECURSIVE Store(_, _)
RECURSIVE StoreAll(_, _, _)
StoreAll(h, trees, acc) ==
    IF trees = <<>> THEN [h |-> h, vs |-> acc]
    ELSE Only({ StoreAll(one.h, Tail(trees), Append(acc, one.v)) :
                one \in {Store(h, Head(trees))} })

Store(h, t) ==
    IF DOMAIN t = {"str"} THEN [h |-> h, v |-> t]
    ELSE IF DOMAIN t = {"d"}
    THEN Only({ [h |-> Append(kids.h,
                              NewDict([i \in 1..Len(t.d) |-> <<t.d[i][1], kids.vs[i]>>])),
                 v |-> [ref |-> Len(kids.h) + 1]] :
                kids \in {StoreAll(h, [i \in 1..Len(t.d) |-> t.d[i][2]], <<>>)} })
    ELSE Only({ [h |-> Append(kids.h, NewList(kids.vs)),
                 v |-> [ref |-> Len(kids.h) + 1]] :
                kids \in {StoreAll(h, t.l, <<>>)} })

(***************************************************************************)
(* utility.py: merge_dicts_and_lists                                       *)
(***************************************************************************)
Raised(h, e) == [h |-> h, r |-> NoneVal, err |-> e]

Returned(h, v) == [h |-> h, r |-> v, err |-> "none"]

\* l.extend(root) for every root in turn: the items of all roots, in order.
RECURSIVE ExtendAll(_, _)
ExtendAll(h, roots) ==
    IF roots = <<>> THEN <<>>
    ELSE h[Head(roots).ref].items \o ExtendAll(h, Tail(roots))

\* assert isinstance(root, kind) holds for every root.
AllOfKind(h, roots, kind) ==
    \A i \in 1..Len(roots) : TypeOf(h, roots[i]) = kind

\* A variant that extends the first root in place instead of a new list.
mdal_list_inplace(h, roots) ==
    IF ~AllOfKind(h, roots, "list") THEN Raised(h, "AssertionError")
    ELSE Returned([h EXCEPT ![roots[1].ref].items = ExtendAll(h, roots)], roots[1])

\* _mdal_list: a new list holding the items of every root, in argument
\* order; the items themselves are copied by reference.
_mdal_list(h, roots) ==
    IF ~AllOfKind(h, roots, "list") THEN Raised(h, "AssertionError")
    ELSE Returned(Append(h, NewList(ExtendAll(h, roots))), [ref |-> Len(h) + 1])

\* The roots after position i that hold key, in order (subroots without its
\* first entry).
RECURSIVE Holders(_, _, _, _)
Holders(h, roots, i, key) ==
    IF i > Len(roots) THEN <<>>
    ELSE LET items == h[roots[i].ref].items IN
         (IF DictHas(items, key) THEN <<DictGet(items, key)>> ELSE <<>>)
            \o Holders(h, roots, i + 1, key)

\* A variant in which a key already in d is skipped whatever its value is.
MdalStoreOnce(items, key, value) ==
    IF DictHas(items, key) THEN items ELSE DictSet(items, key, value)

\* d[key] = value for a value that is neither a dict nor a list.
MdalStore(items, key, value) == DictSet(items, key, value)

RECURSIVE _mdal_dict(_, _)
RECURSIVE MdalLoop(_, _, _, _, _)

\* The two nested loops of _mdal_dict: item j of roots[i] (root0, the root
\* popped off the front), with d the dict under construction.
MdalLoop(h, d, roots, i, j) ==
    IF i > Len(roots) THEN Returned(h, [ref |-> d])
    ELSE LET items == h[roots[i].ref].items IN
    IF j > Len(items) THEN MdalLoop(h, d, roots, i + 1, 1)
    ELSE LET key == items[j][1]
             value == items[j][2]
         IN
         IF IsRef(value)
         THEN IF DictHas(h[d].items, key)
              THEN MdalLoop(h, d, roots, i, j + 1)     \* only merge once!
              ELSE LET t == TypeOf(h, value)
                       others == Holders(h, roots, i + 1, key)
                       subroots == <<value>> \o others
                   IN
                   IF ~AllOfKind(h, others, t) THEN Raised(h, "AssertionError")
                   ELSE Only({
                        IF sub.err # "none" THEN sub
                        ELSE MdalLoop(
                                [sub.h EXCEPT ![d].items = DictSet(@, key, sub.r)],
                                d, roots, i, j + 1) :
                        sub \in {IF t = "list" THEN _mdal_list(h, subroots)
                                 ELSE _mdal_dict(h, subroots)} })
         ELSE MdalLoop([h EXCEPT ![d].items = MdalStore(@, key, value)],
                       d, roots, i, j + 1)

\* _mdal_dict: one root is copied (a shallow dict(root)); several are
\* folded into a new dict d.
_mdal_dict(h, roots) ==
    IF ~AllOfKind(h, roots, "dict") THEN Raised(h, "AssertionError")
    ELSE IF Len(roots) = 1
    THEN Returned(Append(h, NewDict(h[roots[1].ref].items)), [ref |-> Len(h) + 1])
    ELSE MdalLoop(Append(h, NewDict(<<>>)), Len(h) + 1, roots, 1, 1)

merge_dicts_and_lists(h, roots) ==
    IF roots = <<>> THEN Raised(h, "AssertionError")
    ELSE IF IsStr(roots[1]) THEN Raised(h, "AssertionError")
    ELSE IF TypeOf(h, roots[1]) = "list" THEN _mdal_list(h, roots)
    ELSE _mdal_dict(h, roots)

(***************************************************************************)
(* Characters and str methods                                              *)
(*                                                                         *)
(* The documents modelled are written with the characters of Chars.  The   *)
(* digits 0-7 and the letters x, u, U and N are left out: after a          *)
(* backslash they start the numeric and named escapes of a Python string   *)
(* literal.  BEL and BS are the characters "\a" and "\b" of Python.        *)
(* The names of directives and of included files use other lower-case      *)
(* letters too; they are met by the tokenizer only, for which a character  *)
(* that is neither whitespace nor an operator is like any other.           *)
(***************************************************************************)
Letters == {"a", "b", "c", "d", "n", "t"}

Digits == {"8", "9"}

SpaceChars == {" ", "\t", "\n"}

Chars == Letters \cup Digits \cup SpaceChars
            \cup {"=", "{", "}", "[", "]", "#", "'", "\"", "\\", "-", "BEL", "BS"}

\* c.isspace()
IsSpace(c) == c \in SpaceChars

\* s.isspace(): a non-empty str of whitespace only.
StrIsSpace(s) == s # <<>> /\ \A i \in 1..Len(s) : IsSpace(s[i])

\* s.isalnum(): a non-empty str of letters and digits only.
StrIsAlnum(s) == s # <<>> /\ \A i \in 1..Len(s) : s[i] \in Letters \cup Digits

RECURSIVE LStrip(_)
LStrip(s) == IF s # <<>> /\ IsSpace(Head(s)) THEN LStrip(Tail(s)) ELSE s

RECURSIVE RStrip(_)
RStrip(s) ==
    IF s # <<>> /\ IsSpace(s[Len(s)]) THEN RStrip(SubSeq(s, 1, Len(s) - 1)) ELSE s

Strip(s) == LStrip(RStrip(s))

\* "".join(strings)
RECURSIVE Join(_)
Join(strings) == IF strings = <<>> THEN <<>> ELSE Head(strings) \o Join(Tail(strings))

Reversed(s) == [i \in 1..Len(s) |-> s[Len(s) + 1 - i]]

(***************************************************************************)
(* tokenize.py: pushback_str_iterator.  The cursor is self.iterators, a    *)
(* stack growing to the right; an iterator is the str it has yet to yield. *)
(***************************************************************************)
\* __init__
CurNew(s) == <<s>>

\* A push that puts s under the iterators there are.
CurPushUnder(its, s) == <<s>> \o its

\* push
CurPush(its, s) == Append(its, s)

\* __next__: stop is StopIteration; an exhausted iterator is popped only
\* when a later call finds it on top.
RECURSIVE CurNext(_)
CurNext(its) ==
    IF its = <<>> THEN [stop |-> TRUE, c |-> "", its |-> its]
    ELSE IF its[Len(its)] = <<>> THEN CurNext(SubSeq(its, 1, Len(its) - 1))
    ELSE [stop |-> FALSE, c |-> Head(its[Len(its)]),
          its |-> [its EXCEPT ![Len(its)] = Tail(@)]]

\* A __bool__ that keeps the character it read.
CurBoolConsuming(its) ==
    Only({ [b |-> ~n.stop, its |-> n.its] : n \in {CurNext(its)} })

\* __bool__
CurBool(its) ==
    Only({ IF n.stop THEN [b |-> FALSE, its |-> n.its]
           ELSE [b |-> TRUE, its |-> CurPush(n.its, <<n.c>>)] :
           n \in {CurNext(its)} })

\* drain
CurDrain(its) == [s |-> Join(Reversed(its)), its |-> <<>>]

(***************************************************************************)
(* tokenize.py: the tokens and tokenize                                    *)
(***************************************************************************)
Tok(kind, val) == [tok |-> kind, val |-> val]

\* c_to_tokens: the operators a character starts, the longest first.
MultiOf(c) ==
    CASE c = "'" -> Tok("TRIPLE_SINGLE_QUOTE", <<"'", "'", "'">>)
      [] c = "\"" -> Tok("TRIPLE_DOUBLE_QUOTE", <<"\"", "\"", "\"">>)
      [] c = "{" -> Tok("EMPTY_CURLY_BRACES", <<"{", "}">>)
      [] c = "[" -> Tok("EMPTY_SQUARE_BRACKETS", <<"[", "]">>)

SingleOf(c) ==
    CASE c = "#" -> Tok("NUMBER_SIGN", <<c>>)
      [] c = "=" -> Tok("EQUALS", <<c>>)
      [] c = "{" -> Tok("LEFT_CURLY_BRACE", <<c>>)
      [] c = "}" -> Tok("RIGHT_CURLY_BRACE", <<c>>)
      [] c = "[" -> Tok("LEFT_SQUARE_BRACKET", <<c>>)
      [] c = "]" -> Tok("RIGHT_SQUARE_BRACKET", <<c>>)
      [] c = "'" -> Tok("SINGLE_QUOTE", <<c>>)
      [] c = "\"" -> Tok("DOUBLE_QUOTE", <<c>>)

token_first_characters == {"#", "=", "{", "}", "[", "]", "'", "\""}

HasMulti(c) == c \in {"'", "\"", "{", "["}

single_quote_tokens == {"SINGLE_QUOTE", "DOUBLE_QUOTE"}

triple_quote_tokens == {"TRIPLE_SINGLE_QUOTE", "TRIPLE_DOUBLE_QUOTE"}

left_bracket_tokens == {"LEFT_SQUARE_BRACKET", "LEFT_CURLY_BRACE"}

left_bracket_to_right_bracket(c) == IF c = "[" THEN "]" ELSE "}"

\* A flattening that keeps the left bracket's own token.
left_bracket_kept(c) == SingleOf(c)

left_bracket_to_empty_bracket_token(c) ==
    IF c = "[" THEN Tok("EMPTY_SQUARE_BRACKETS", <<"[", "]">>)
    ELSE Tok("EMPTY_CURLY_BRACES", <<"{", "}">>)

non_quoting_operators == token_first_characters \ {"\"", "'"}

\* for c in reversed(token): i.push(c)
RECURSIVE PushReversed(_, _)
PushReversed(its, token) ==
    IF token = <<>> THEN its
    ELSE PushReversed(CurPush(its, <<token[Len(token)]>>),
                      SubSeq(token, 1, Len(token) - 1))

\* parse_unquoted_string: the loop, which stops at the end of the line or
\* at an operator character, pushed back.
RECURSIVE UnquotedScan(_, _)
UnquotedScan(its, buffer) ==
    Only({ IF n.stop THEN [s |-> buffer, its |-> n.its]
           ELSE IF n.c \in non_quoting_operators
           THEN [s |-> buffer, its |-> CurPush(n.its, <<n.c>>)]
           ELSE UnquotedScan(n.its, Append(buffer, n.c)) :
           n \in {CurNext(its)} })

\* An unquoted string that keeps its trailing whitespace.
parse_unquoted_unstripped(its) ==
    Only({ [s |-> r.s, its |-> r.its] : r \in {UnquotedScan(its, <<>>)} })

parse_unquoted_string(its) ==
    Only({ [s |-> RStrip(r.s), its |-> r.its] : r \in {UnquotedScan(its, <<>>)} })

\* parse_quoted_string: the loop that fills buffer.  A backslash toggles the
\* flag and is dropped; a set flag puts one backslash before the next
\* character.
RECURSIVE QuotedScan(_, _, _, _)
QuotedScan(its, quote, buffer, backslash) ==
    Only({ IF n.stop THEN [buffer |-> buffer, its |-> n.its]
           ELSE IF n.c = "\\" THEN QuotedScan(n.its, quote, buffer, ~backslash)
           ELSE IF n.c = quote /\ ~backslash
           THEN [buffer |-> Append(buffer, quote), its |-> n.its]
           ELSE QuotedScan(n.its, quote,
                           buffer \o (IF backslash THEN <<"\\">> ELSE <<>>) \o <<n.c>>,
                           FALSE) :
           n \in {CurNext(its)} })

\* The text a backslash and c stand for in a Python string literal.
PyEscape(c) ==
    CASE c = "n" -> <<"\n">>
      [] c = "t" -> <<"\t">>
      [] c = "a" -> <<"BEL">>
      [] c = "b" -> <<"BS">>
      [] c \in {"'", "\"", "\\"} -> <<c>>
      [] c = "\n" -> <<>>
      [] OTHER -> <<"\\", c>>

\* The value of the body of a string literal (the text between its quotes).
RECURSIVE PyUnescape(_)
PyUnescape(body) ==
    IF body = <<>> THEN <<>>
    ELSE IF Head(body) = "\\" /\ Len(body) >= 2
    THEN PyEscape(body[2]) \o PyUnescape(SubSeq(body, 3, Len(body)))
    ELSE <<Head(body)>> \o PyUnescape(Tail(body))

\* The body of buffer has an end-of-literal in it: a quote not preceded by a
\* backslash, or a line break.
RECURSIVE BodyEnds(_, _)
BodyEnds(body, quote) ==
    IF body = <<>> THEN FALSE
    ELSE IF Head(body) = "\\" THEN Len(body) < 2 \/ BodyEnds(SubSeq(body, 3, Len(body)), quote)
    ELSE Head(body) \in {quote, "\n"} \/ BodyEnds(Tail(body), quote)

\* ast.literal_eval(buffer) for a buffer that starts with a quote: a
\* SyntaxError unless buffer is one whole string literal.
literal_eval(buffer) ==
    IF Len(buffer) >= 2 /\ buffer[Len(buffer)] = buffer[1]
       /\ ~BodyEnds(SubSeq(buffer, 2, Len(buffer) - 1), buffer[1])
    THEN [s |-> PyUnescape(SubSeq(buffer, 2, Len(buffer) - 1)), err |-> "none"]
    ELSE [s |-> <<>>, err |-> "SyntaxError"]

parse_quoted_string(its, quote) ==
    Only({ Only({ [s |-> v.s, err |-> v.err, its |-> r.its] :
                  v \in {literal_eval(r.buffer)} }) :
           r \in {QuotedScan(its, quote, <<quote>>, FALSE)} })

\* The whitespace branch: the rest of the run is read and the first other
\* character is pushed back.
RECURSIVE WhitespaceScan(_, _)
WhitespaceScan(its, whitespace) ==
    Only({ IF n.stop THEN [s |-> whitespace, its |-> n.its]
           ELSE IF ~IsSpace(n.c) THEN [s |-> whitespace, its |-> CurPush(n.its, <<n.c>>)]
           ELSE WhitespaceScan(n.its, Append(whitespace, n.c)) :
           n \in {CurNext(its)} })

\* The look-ahead for an operator of several characters: characters are
\* read until token is as long as the operator or the line ends.
RECURSIVE MultiScan(_, _, _)
MultiScan(its, token, len) ==
    Only({ IF n.stop THEN [token |-> token, its |-> n.its]
           ELSE IF Len(token) + 1 = len
           THEN [token |-> Append(token, n.c), its |-> n.its]
           ELSE MultiScan(n.its, Append(token, n.c), len) :
           n \in {CurNext(its)} })

\* A choice that pushes the look-ahead back and does not read c again.
ChooseTokenKeeping(c, its) ==
    IF ~HasMulti(c) THEN [t |-> SingleOf(c), its |-> its]
    ELSE Only({ IF m.token = MultiOf(c).val THEN [t |-> MultiOf(c), its |-> m.its]
                ELSE [t |-> SingleOf(c), its |-> PushReversed(m.its, m.token)] :
                m \in {MultiScan(its, <<c>>, Len(MultiOf(c).val))} })

\* The operator chosen for c: the long one if the look-ahead read it, else
\* the single character, with the look-ahead pushed back and c read again.
ChooseToken(c, its) ==
    IF ~HasMulti(c) THEN [t |-> SingleOf(c), its |-> its]
    ELSE Only({ IF m.token = MultiOf(c).val THEN [t |-> MultiOf(c), its |-> m.its]
                ELSE [t |-> SingleOf(c), its |-> CurNext(PushReversed(m.its, m.token)).its] :
                m \in {MultiScan(its, <<c>>, Len(MultiOf(c).val))} })

\* The flattening of "[ ]" and "{ }": whitespace is read up to the closing
\* bracket; before any other character it is pushed back, at the end of
\* the line it is dropped.
RECURSIVE BracketScan(_, _, _, _)
BracketScan(its, t, right_bracket, characters) ==
    Only({ IF n.stop THEN [t |-> t, its |-> n.its]
           ELSE IF IsSpace(n.c)
           THEN BracketScan(n.its, t, right_bracket, Append(characters, n.c))
           ELSE IF n.c = right_bracket
           THEN [t |-> left_bracket_to_empty_bracket_token(t.val[1]), its |-> n.its]
           ELSE [t |-> t, its |-> PushReversed(CurPush(n.its, <<n.c>>), characters)] :
           n \in {CurNext(its)} })

Yield(its, out) == [its |-> its, out |-> out, err |-> "none", return |-> FALSE]

YieldReturn(its, out) == [its |-> its, out |-> out, err |-> "none", return |-> TRUE]

YieldRaise(its, e) == [its |-> its, out |-> <<>>, err |-> e, return |-> TRUE]

\* A tokenize that yields the whitespace after a triple quote (the lines
\* commented out at the end of the triple-quote branch).
TokOperatorTrailing(t, c, its, suppress_whitespace) ==
    IF t.tok = "NUMBER_SIGN"
    THEN YieldReturn(<<>>, <<Tok("COMMENT", CurDrain(its).s)>>)
    ELSE IF t.tok \in single_quote_tokens
    THEN Only({ IF q.err # "none" THEN YieldRaise(q.its, q.err)
                ELSE Yield(q.its, <<Tok("STRING", q.s)>>) :
                q \in {parse_quoted_string(its, c)} })
    ELSE IF t.tok \in triple_quote_tokens
    THEN IF CurDrain(its).s # <<>> /\ ~StrIsSpace(CurDrain(its).s)
         THEN YieldRaise(<<>>, "RuntimeError")
         ELSE IF CurDrain(its).s # <<>> /\ ~suppress_whitespace
         THEN YieldReturn(<<>>, <<t, Tok("WHITESPACE", CurDrain(its).s)>>)
         ELSE YieldReturn(<<>>, <<t>>)
    ELSE IF t.tok \in left_bracket_tokens
    THEN Only({ Yield(b.its, <<b.t>>) :
                b \in {BracketScan(its, t, left_bracket_to_right_bracket(t.val[1]), <<>>)} })
    ELSE Yield(its, <<t>>)

\* What tokenize does with an operator token t whose first character is c.
TokOperator(t, c, its, suppress_whitespace) ==
    IF t.tok = "NUMBER_SIGN"
    THEN YieldReturn(<<>>, <<Tok("COMMENT", CurDrain(its).s)>>)
    ELSE IF t.tok \in single_quote_tokens
    THEN Only({ IF q.err # "none" THEN YieldRaise(q.its, q.err)
                ELSE Yield(q.its, <<Tok("STRING", q.s)>>) :
                q \in {parse_quoted_string(its, c)} })
    ELSE IF t.tok \in triple_quote_tokens
    THEN IF CurDrain(its).s # <<>> /\ ~StrIsSpace(CurDrain(its).s)
         THEN YieldRaise(<<>>, "RuntimeError")
         ELSE YieldReturn(<<>>, <<t>>)
    ELSE IF t.tok \in left_bracket_tokens
    THEN Only({ Yield(b.its, <<b.t>>) :
                b \in {BracketScan(its, t, left_bracket_to_right_bracket(t.val[1]), <<>>)} })
    ELSE Yield(its, <<t>>)

\* A turn that yields the whitespace run whatever suppress_whitespace is.
TokBodyAlways(c, its, suppress_whitespace) ==
    IF IsSpace(c)
    THEN Only({ Yield(w.its, <<Tok("WHITESPACE", w.s)>>) :
                w \in {WhitespaceScan(its, <<c>>)} })
    ELSE IF c \in token_first_characters
    THEN Only({ TokOperator(ch.t, c, ch.its, suppress_whitespace) :
                ch \in {ChooseToken(c, its)} })
    ELSE Only({ Yield(u.its, <<Tok("STRING", u.s)>>) :
                u \in {parse_unquoted_string(CurPush(its, <<c>>))} })

\* One turn of the main loop of tokenize, for the character c just read.
TokBody(c, its, suppress_whitespace) ==
    IF IsSpace(c)
    THEN Only({ Yield(w.its, IF suppress_whitespace THEN <<>>
                             ELSE <<Tok("WHITESPACE", w.s)>>) :
                w \in {WhitespaceScan(its, <<c>>)} })
    ELSE IF c \in token_first_characters
    THEN Only({ TokOperator(ch.t, c, ch.its, suppress_whitespace) :
                ch \in {ChooseToken(c, its)} })
    ELSE Only({ Yield(u.its, <<Tok("STRING", u.s)>>) :
                u \in {parse_unquoted_string(CurPush(its, <<c>>))} })

\* The main loop: the tokens yielded, and the exception that ended the
\* generator if one did.
RECURSIVE TokLoop(_, _, _)
TokLoop(its, suppress_whitespace, toks) ==
    Only({ IF n.stop THEN [toks |-> toks, err |-> "none"]
           ELSE Only({ IF r.return THEN [toks |-> toks \o r.out, err |-> r.err]
                       ELSE TokLoop(r.its, suppress_whitespace, toks \o r.out) :
                       r \in {TokBody(n.c, n.its, suppress_whitespace)} }) :
           n \in {CurNext(its)} })

\* list(tokenize(s, suppress_whitespace))
tokenize(s, suppress_whitespace) == TokLoop(CurNew(s), suppress_whitespace, <<>>)

(***************************************************************************)
(* tokenize.py: LineParser                                                 *)
(***************************************************************************)
\* s.split("\n")
RECURSIVE SplitAcc(_, _, _)
SplitAcc(s, cur, acc) ==
    IF s = <<>> THEN Append(acc, cur)
    ELSE IF Head(s) = "\n" THEN SplitAcc(Tail(s), <<>>, Append(acc, cur))
    ELSE SplitAcc(Tail(s), Append(cur, Head(s)), acc)

SplitLines(s) == SplitAcc(s, <<>>, <<>>)

\* "\n".join(strings)
RECURSIVE JoinLines(_)
JoinLines(strings) ==
    IF strings = <<>> THEN <<>>
    ELSE IF Len(strings) = 1 THEN strings[1]
    ELSE strings[1] \o <<"\n">> \o JoinLines(Tail(strings))

\* LineParser.__next__ over the lines ls not yet read (line is self.line):
\* lines are read until one yields tokens; next() on the exhausted
\* enumerate raises StopIteration, which ends the caller's for loop; an
\* exception of tokenize leaves through the caller.
RECURSIVE LineParserNext(_, _)
LineParserNext(ls, line) ==
    IF ls = <<>>
    THEN [stop |-> TRUE, err |-> "none", tokens |-> <<>>, line |-> line, lines |-> <<>>]
    ELSE Only({ IF l.err # "none"
                THEN [stop |-> FALSE, err |-> l.err, tokens |-> <<>>,
                      line |-> Head(ls), lines |-> Tail(ls)]
                ELSE IF l.toks # <<>>
                THEN [stop |-> FALSE, err |-> "none", tokens |-> l.toks,
                      line |-> Head(ls), lines |-> Tail(ls)]
                ELSE LineParserNext(Tail(ls), Head(ls)) :
                l \in {tokenize(Head(ls), TRUE)} })

(***************************************************************************)
(* __init__.py: Parser.  The parser is a record: h the heap, root the      *)
(* identity of self.root, _lines the lines of the document, lines those    *)
(* not yet read and line the one read last (the LineParser), frames the    *)
(* calls of _read_dict/_read_list in progress (innermost last),            *)
(* breadcrumbs self.breadcrumbs, pc "new", "parse", "done" or "raised",    *)
(* err the exception that left loads, result the value loads returned.     *)
(***************************************************************************)
NoError == [kind |-> "none", message |-> [text |-> "", arg |-> <<>>],
            tokens |-> NoneVal, line |-> NoneVal]

\* An exception: PerkyFormatError(message, tokens, line) keeps its three
\* arguments; the others have a kind and a message only.
Error(kind, text, arg, tokens, line) ==
    [kind |-> kind, message |-> [text |-> text, arg |-> arg],
     tokens |-> tokens, line |-> line]

PerkyFormatError(text, arg, tokens, line) ==
    Error("PerkyFormatError", text, arg, tokens, line)

Toks(tokens) == [toks |-> tokens]

Top(stack) == stack[Len(stack)]

Pop(stack) == SubSeq(stack, 1, Len(stack) - 1)

\* The locals of one call of _read_dict/_read_list: the container d or l,
\* keys_seen, and the key whose value the call is waiting for.
Frame(kind, id) == [kind |-> kind, id |-> id, keys_seen |-> {}, key |-> <<>>]

\* An exception leaves loads: the calls in progress are gone, what they did
\* to the heap and to self.breadcrumbs stays.
ParserRaise(p, e) == [p EXCEPT !.pc = "raised", !.err = e, !.frames = <<>>]

\* d[key] = value in _read_dict, l.append(value) in _read_list
StoreValue(h, f, v) ==
    [h EXCEPT ![f.id] =
        IF f.kind = "dict" THEN NewDict(DictSet(@.items, f.key, v))
        ELSE NewList(Append(@.items, v))]

\* A value reaches the innermost call in progress, which stores it; with no
\* call in progress it is what parse() and loads() return.
Deliver(p, v) ==
    IF p.frames = <<>> THEN [p EXCEPT !.pc = "done", !.result = v]
    ELSE [p EXCEPT !.h = StoreValue(p.h, Top(p.frames), v)]

\* The entry of _read_dict/_read_list on the container id:
\* self.breadcrumbs.append(d) and the loop's locals.
EnterContainer(p, kind, id) ==
    [p EXCEPT !.frames = Append(@, Frame(kind, id)),
              !.breadcrumbs = Append(@, id)]

\* The exit of _read_dict/_read_list: self.breadcrumbs.pop(); return d
LeaveContainer(p) ==
    Deliver([p EXCEPT !.frames = Pop(@), !.breadcrumbs = Pop(@)],
            [ref |-> Top(p.frames).id])

\* The while loop of _read_textblock over the lines ls: the lines before
\* the one that is the marker.  self.lp is always true, so the end of the
\* input is met by next_line(), which raises StopIteration.
RECURSIVE TextblockScan(_, _, _)
TextblockScan(ls, marker, l) ==
    IF ls = <<>> THEN [stop |-> TRUE, l |-> l, line |-> <<>>, lines |-> <<>>]
    ELSE IF LStrip(RStrip(Head(ls))) = marker
    THEN [stop |-> FALSE, l |-> l, line |-> RStrip(Head(ls)), lines |-> Tail(ls)]
    ELSE TextblockScan(Tail(ls), marker, Append(l, RStrip(Head(ls))))

StartsWith(s, prefix) ==
    Len(s) >= Len(prefix) /\ SubSeq(s, 1, Len(prefix)) = prefix

\* A dedent that removes all the whitespace a line starts with.
DedentAll(line, prefix) == LStrip(line)

\* re.sub(r'(?m)^' + prefix, '', s) on one line of s
Dedent(line, prefix) ==
    IF StartsWith(line, prefix) THEN SubSeq(line, Len(prefix) + 1, Len(line))
    ELSE line

\* _read_textblock(marker) over the lines ls: [s, err, lines]
_read_textblock(ls, marker) ==
    Only({ IF sc.stop
           THEN [s |-> <<>>, lines |-> sc.lines,
                 err |-> Error("StopIteration", "", <<>>, NoneVal, NoneVal)]
           ELSE LET prefix == SubSeq(sc.line, 1, Len(sc.line) - Len(marker))
                    bad == {i \in 1..Len(sc.l) :
                               sc.l[i] # <<>> /\ ~StartsWith(sc.l[i], prefix)}
                IN  IF prefix # <<>> /\ bad # {}
                    THEN [s |-> <<>>, lines |-> sc.lines,
                          err |-> PerkyFormatError(
                              "Format error: malformed line triple-quoted block",
                              <<>>, NoneVal,
                              Str(sc.l[CHOOSE i \in bad : \A j \in bad : i <= j]))]
                    ELSE [s |-> JoinLines([i \in 1..Len(sc.l) |->
                                              Dedent(sc.l[i], prefix)]),
                          lines |-> sc.lines, err |-> NoError] :
           sc \in {TextblockScan(ls, marker, <<>>)} })

\* _parse_value(t) and the statement of the caller that stores what it
\* returns.  A nested _read_dict/_read_list works on a new container and
\* returns it when its loop ends, so the container is stored then.
_parse_value(p, t) ==
    IF t.tok = "LEFT_CURLY_BRACE"
    THEN EnterContainer([p EXCEPT !.h = Append(@, NewDict(<<>>))], "dict", Len(p.h) + 1)
    ELSE IF t.tok = "LEFT_SQUARE_BRACKET"
    THEN EnterContainer([p EXCEPT !.h = Append(@, NewList(<<>>))], "list", Len(p.h) + 1)
    ELSE IF t.tok \in {"TRIPLE_SINGLE_QUOTE", "TRIPLE_DOUBLE_QUOTE"}
    THEN Only({ IF b.err.kind # "none"
                THEN ParserRaise([p EXCEPT !.lines = b.lines], b.err)
                ELSE Deliver([p EXCEPT !.lines = b.lines], Str(b.s)) :
                b \in {_read_textblock(p.lines, t.val)} })
    ELSE IF t.tok = "EMPTY_CURLY_BRACES"
    THEN Deliver([p EXCEPT !.h = Append(@, NewDict(<<>>))], [ref |-> Len(p.h) + 1])
    ELSE IF t.tok = "EMPTY_SQUARE_BRACKETS"
    THEN Deliver([p EXCEPT !.h = Append(@, NewList(<<>>))], [ref |-> Len(p.h) + 1])
    ELSE Deliver(p, Str(t.val))

\* self._parse_pragma() as _read_dict and _read_list call it: without the
\* argument line, so the call raises TypeError before the body runs.
CallParsePragma(p) ==
    ParserRaise(p, Error("TypeError",
        "_parse_pragma() missing 1 required positional argument: 'line'",
        <<>>, NoneVal, NoneVal))

\* A mapping that forgets the keys it has read.
KeyNeverSeen(keys_seen, key) == FALSE

\* key in keys_seen
KeySeen(keys_seen, key) == key \in keys_seen

\* One pass of the for loop of _read_dict with the tokens and line that
\* self.lp yielded.
_read_dict(p, tokens, line) ==
    IF tokens[1].tok = "EQUALS" THEN CallParsePragma(p)
    ELSE IF Len(tokens) = 1 /\ tokens[1].tok = "RIGHT_CURLY_BRACE" THEN LeaveContainer(p)
    ELSE IF Len(tokens) = 1 /\ tokens[1].tok = "COMMENT" THEN p
    ELSE LET toks == SelectSeq(tokens, LAMBDA t : t.tok # "WHITESPACE")
         IN  IF ~(/\ 2 <= Len(toks) /\ Len(toks) <= 3
                  /\ toks[1].tok = "STRING"
                  /\ toks[2].tok = "EQUALS")
             THEN ParserRaise(p, PerkyFormatError(
                 "Invalid token sequence: in dict, expected STRING = or STRING == VALUE or }",
                 <<>>, Toks(toks), Str(line)))
             ELSE IF KeySeen(Top(p.frames).keys_seen, Strip(toks[1].val))
             THEN ParserRaise(p, PerkyFormatError(
                 "Invalid Perky dict: repeated key",
                 Strip(toks[1].val), Toks(toks), Str(line)))
             ELSE Only({ IF Len(toks) = 3 THEN _parse_value(q, toks[3])
                         ELSE Deliver(q, Str(<<>>)) :
                         q \in {[p EXCEPT !.frames[Len(p.frames)] =
                                   [@ EXCEPT !.keys_seen = @ \cup {Strip(toks[1].val)},
                                             !.key = Strip(toks[1].val)]]} })

\* One pass of the for loop of _read_list.
_read_list(p, tokens, line) ==
    IF tokens[1].tok = "EQUALS" THEN CallParsePragma(p)
    ELSE IF Len(tokens) # 1
    THEN ParserRaise(p, PerkyFormatError(
        "Invalid token sequence: in list, expected one token",
        <<>>, Toks(tokens), Str(line)))
    ELSE IF tokens[1].tok = "RIGHT_SQUARE_BRACKET" THEN LeaveContainer(p)
    ELSE IF tokens[1].tok = "COMMENT" THEN p
    ELSE _parse_value(p, tokens[1])

\* The input is exhausted: the for loop of the innermost call ends, the call
\* returns its container to its caller, whose for loop ends in turn.
RECURSIVE EndOfLines(_)
EndOfLines(p) ==
    IF p.pc # "parse" THEN p
    ELSE Only({ EndOfLines(q) : q \in {LeaveContainer(p)} })

\* One step of the parse: self.lp is asked for the next tokens and the
\* innermost loop handles them.
ParserStep(p) ==
    Only({ IF n.stop THEN EndOfLines([p EXCEPT !.lines = n.lines, !.line = n.line])
           ELSE IF n.err # "none"
           THEN ParserRaise([p EXCEPT !.lines = n.lines, !.line = n.line],
                            Error(n.err, "", <<>>, NoneVal, NoneVal))
           ELSE IF Top(p.frames).kind = "dict"
           THEN _read_dict([p EXCEPT !.lines = n.lines, !.line = n.line], n.tokens, n.line)
           ELSE _read_list([p EXCEPT !.lines = n.lines, !.line = n.line], n.tokens, n.line) :
           n \in {LineParserNext(p.lines, p.line)} })

\* Parser(s, root=root): root is the identity of a container of h.
ParserNew(h, s, root) ==
    [h |-> h, root |-> root, _lines |-> SplitLines(s),
     lines |-> SplitLines(s), line |-> <<>>,
     frames |-> <<>>, breadcrumbs |-> <<>>,
     pc |-> "new", err |-> NoError, result |-> NoneVal]

\* Parser.parse: _read_list or _read_dict on self.root
parse(p) == EnterContainer([p EXCEPT !.pc = "parse"], p.h[p.root].kind, p.root)

RECURSIVE ParserRun(_)
ParserRun(p) ==
    IF p.pc # "parse" THEN p
    ELSE Only({ ParserRun(q) : q \in {ParserStep(p)} })

\* loads(s) with the default root, a new dict: the parser when loads has
\* returned or raised.
loads(h, s) ==
    ParserRun(parse(ParserNew(Append(h, NewDict(<<>>)), s, Len(h) + 1)))

(***************************************************************************)
(* __init__.py: Parser._parse_pragma and pragma_include.  The files that   *)
(* an include directive can name are IncludeFiles; self.pragmas is pragmas.*)
(***************************************************************************)
UpperCase == <<"A", "B", "C", "D", "E", "F", "G", "H", "I", "J", "K", "L", "M",
               "N", "O", "P", "Q", "R", "S", "T", "U", "V", "W", "X", "Y", "Z">>

LowerCase == <<"a", "b", "c", "d", "e", "f", "g", "h", "i", "j", "k", "l", "m",
               "n", "o", "p", "q", "r", "s", "t", "u", "v", "w", "x", "y", "z">>

\* s.lower()
Lower(s) ==
    [i \in 1..Len(s) |->
        IF \E j \in 1..26 : UpperCase[j] = s[i]
        THEN LowerCase[CHOOSE j \in 1..26 : UpperCase[j] = s[i]]
        ELSE s[i]]

\* s.split(None, 1): the first word and, if there is one, the rest without
\* the whitespace that follows the word.
RECURSIVE FirstWord(_)
FirstWord(s) ==
    IF s = <<>> \/ IsSpace(Head(s)) THEN <<>> ELSE <<Head(s)>> \o FirstWord(Tail(s))

SplitOnce(s) ==
    LET t == LStrip(s)
        word == FirstWord(t)
        rest == LStrip(SubSeq(t, Len(word) + 1, Len(t)))
    IN  IF t = <<>> THEN <<>>
        ELSE IF rest = <<>> THEN <<word>>
        ELSE <<word, rest>>

\* The registry passed as loads(s, pragmas={'include': pragma_include()}).
pragmas == {<<"i", "n", "c", "l", "u", "d", "e">>}

\* The files on the include path: name and text.
IncludeFiles ==
    { [name |-> <<"s", "u", "b">>,
       text |-> <<"a", "=", "9", "\n", "b", "=", "9">>],
      [name |-> <<"a", "l", "t">>,
       text |-> <<"a", "=", "8", "\n", "c", "=", "8">>] }

\* pragma_include(parser, filename): the file is parsed into a new root of
\* the kind of the innermost container, merged after that container, and
\* the container is cleared and refilled with the merge.
pragma_include(p, filename) ==
    LET leaf == Top(p.breadcrumbs)
        found == {f \in IncludeFiles : filename = Str(f.name)}
    IN  IF filename = NoneVal
        THEN ParserRaise(p, Error("TypeError", "join", <<>>, NoneVal, NoneVal))
        ELSE IF found = {}
        THEN ParserRaise(p, Error("FileNotFoundError", "", filename.str, NoneVal, NoneVal))
        ELSE Only({
            IF sub.pc = "raised" THEN ParserRaise([p EXCEPT !.h = sub.h], sub.err)
            ELSE Only({
                IF m.err # "none"
                THEN ParserRaise([p EXCEPT !.h = m.h],
                                 Error(m.err, "", <<>>, NoneVal, NoneVal))
                ELSE [p EXCEPT !.h = [m.h EXCEPT ![leaf].items = m.h[m.r.ref].items]] :
                m \in {merge_dicts_and_lists(sub.h, <<[ref |-> leaf], [ref |-> Len(p.h) + 1]>>)} }) :
            sub \in {ParserRun(parse(ParserNew(
                        Append(p.h, IF p.h[leaf].kind = "list" THEN NewList(<<>>)
                                    ELSE NewDict(<<>>)),
                        (Only(found)).text, Len(p.h) + 1)))} })

\* The body of _parse_pragma(line).
_parse_pragma(p, line) ==
    LET rest == Strip(Tail(Strip(line)))
        fields == SplitOnce(rest)
    IN  IF fields = <<>>
        THEN ParserRaise(p, Error("IndexError", "list index out of range", <<>>,
                                  NoneVal, NoneVal))
        ELSE Only({
            IF Len(fields) = 2 /\ a.err # "none"
            THEN ParserRaise(p, Error(a.err, "", <<>>, NoneVal, NoneVal))
            ELSE IF Len(fields) = 2 /\ (Len(a.toks) # 1 \/ a.toks[1].tok # "STRING")
            THEN ParserRaise(p, PerkyFormatError("Invalid pragma argument",
                                                 fields[2], Toks(a.toks), Str(rest)))
            ELSE IF Lower(fields[1]) \notin pragmas
            THEN ParserRaise(p, PerkyFormatError("Unknown pragma", Lower(fields[1]),
                                                 NoneVal, Str(rest)))
            ELSE pragma_include(p, IF Len(fields) = 2 THEN Str(a.toks[1].val)
                                   ELSE NoneVal) :
            a \in {IF Len(fields) = 2 THEN tokenize(fields[2], TRUE)
                   ELSE [toks |-> <<>>, err |-> "none"]} })

(***************************************************************************)
(* __init__.py: Serializer.  The serializer is a record: indent, lines and *)
(* line as in the class, err the exception that left it or "none".         *)
(***************************************************************************)
\* Serializer().prefix
SerializerPrefix == <<" ", " ", " ", " ">>

\* reset
SerializerNew == [indent |-> 0, lines |-> <<>>, line |-> <<>>, err |-> "none"]

\* n * s
RECURSIVE Times(_, _)
Times(n, s) == IF n <= 0 THEN <<>> ELSE s \o Times(n - 1, s)

\* newline
newline(z, s) ==
    [z EXCEPT !.line = <<>>,
              !.lines = Append(@, IF z.indent # 0
                                  THEN Times(z.indent, SerializerPrefix) \o z.line \o s
                                  ELSE z.line \o s)]

Count(s, c) == Cardinality({i \in 1..Len(s) : s[i] = c})

\* The four s.replace(bad, good) of quoted_string, on one character.
EscapeChar(c, quote) ==
    IF c = "\\" THEN <<"\\", "\\">>
    ELSE IF c = "\t" THEN <<"\\", "t">>
    ELSE IF c = "\n" THEN <<"\\", "n">>
    ELSE IF c = quote THEN <<"\\", quote>>
    ELSE <<c>>

\* quoted_string: [s, err].  The third operand of must_quote reads the name
\* non_quote_operators, which no module defines (tokenize.py defines
\* non_quoting_operators): it raises NameError when the first two operands
\* are false.
quoted_string(s) ==
    IF ~(Strip(s) # s \/ (s # <<>> /\ s[1] \in {"'", "\""}))
    THEN [s |-> <<>>, err |-> "NameError"]
    ELSE LET quote == IF Count(s, "\"") <= Count(s, "'") THEN "\"" ELSE "'"
         IN  [s |-> <<quote>> \o Join([i \in 1..Len(s) |-> EscapeChar(s[i], quote)])
                       \o <<quote>>,
              err |-> "none"]

\* "".join(s.split())
WithoutSpace(s) == SelectSeq(s, LAMBDA c : ~IsSpace(c))

\* s == s.strip() and "".join(s.split()).isalnum()
IsPlain(s) == s = Strip(s) /\ StrIsAlnum(WithoutSpace(s))

RECURSIVE serialize_value(_, _, _)

\* serialize: the items of d from the i-th on.
RECURSIVE serialize(_, _, _, _)
serialize(h, z, items, i) ==
    IF z.err # "none" \/ i > Len(items) THEN z
    ELSE Only({ IF q.err # "none" THEN [z EXCEPT !.err = q.err]
                ELSE Only({ serialize(h, y, items, i + 1) :
                            y \in {serialize_value(h,
                                      [z EXCEPT !.line = q.s \o <<" ", "=", " ">>],
                                      items[i][2])} }) :
                q \in {IF IsPlain(items[i][1]) THEN quoted_string(items[i][1])
                       ELSE [s |-> items[i][1], err |-> "none"]} })

\* serialize_dict: the closer is written before the indent is taken back.
serialize_dict(h, z, value) ==
    Only({ IF y.err # "none" THEN y
           ELSE [newline(y, <<"}">>) EXCEPT !.indent = @ - 1] :
           y \in {serialize(h, [newline(z, <<"{">>) EXCEPT !.indent = @ + 1],
                            h[value.ref].items, 1)} })

\* The for loop of serialize_list from the i-th value on.
RECURSIVE SerializeItems(_, _, _, _)
SerializeItems(h, z, items, i) ==
    IF z.err # "none" \/ i > Len(items) THEN z
    ELSE Only({ SerializeItems(h, y, items, i + 1) :
                y \in {serialize_value(h, z, items[i])} })

\* serialize_list
serialize_list(h, z, l) ==
    Only({ IF y.err # "none" THEN y
           ELSE [newline(y, <<"]">>) EXCEPT !.indent = @ - 1] :
           y \in {SerializeItems(h, [newline(z, <<"[">>) EXCEPT !.indent = @ + 1],
                                 h[l.ref].items, 1)} })

\* serialize_quoted_string
serialize_quoted_string(z, s) ==
    Only({ IF q.err # "none" THEN [z EXCEPT !.err = q.err] ELSE newline(z, q.s) :
           q \in {quoted_string(s)} })

\* The for loop of serialize_textblock.
RECURSIVE NewlineAll(_, _)
NewlineAll(z, ls) ==
    IF ls = <<>> THEN z ELSE NewlineAll(newline(z, Head(ls)), Tail(ls))

\* serialize_textblock
serialize_textblock(z, s) ==
    [newline(NewlineAll([newline(z, <<"\"", "\"", "\"">>) EXCEPT !.indent = @ + 1],
                        SplitLines(s)),
             <<"\"", "\"", "\"">>)
        EXCEPT !.indent = @ - 1]

\* serialize_value
serialize_value(h, z, value) ==
    IF IsRef(value) /\ h[value.ref].kind = "dict" THEN serialize_dict(h, z, value)
    ELSE IF IsRef(value) THEN serialize_list(h, z, value)
    ELSE IF \E i \in 1..Len(value.str) : value.str[i] = "\n"
    THEN serialize_textblock(z, value.str)
    ELSE IF IsPlain(value.str) THEN newline(z, value.str)
    ELSE serialize_quoted_string(z, value.str)

\* dumps(d) for the dict d of the heap h: [text, err]
dumps(h, d) ==
    Only({ [text |-> JoinLines(z.lines), err |-> z.err] :
           z \in {serialize(h, SerializerNew, h[d.ref].items, 1)} })

(***************************************************************************)
(* Spec: loads(s) on a document s, one action per pass of the loop of the  *)
(* innermost _read_dict/_read_list.                                        *)
(***************************************************************************)
MaxLines == 3

\* The lines documents are made of.
Catalogue == {
    <<>>,
    <<"a", "=", "8">>,
    <<"a", "=", "9">>,
    <<"'", " ", "a", " ", "'", "=", "9">>,
    <<"b", "=", "{">>,
    <<"c", "=", "{">>,
    <<"}">>,
    <<"d", "=", "[">>,
    <<"]">>,
    <<"8">>,
    <<"#", " ", "c">>,
    <<"a", "=", "'">>,
    <<"=", "b", "a", "l", "l", "o", "o", "n">>,
    <<"=", "i", "n", "c", "l", "u", "d", "e", " ", "s", "u", "b">>,
    <<"=", "i", "n", "c", "l", "u", "d", "e", " ", "a", "l", "t">> }

\* Every document of up to MaxLines lines of the catalogue.
ShortDocuments == UNION {[1..n -> Catalogue] : n \in 1..MaxLines}

\* Longer documents: a key repeated in a nested mapping, in sibling
\* mappings, in the mappings of a list, at the root after a nested mapping.
LongDocuments == {
    << <<"a", "=", "8">>, <<"b", "=", "{">>, <<"a", "=", "9">>, <<"}">> >>,
    << <<"a", "=", "8">>, <<"b", "=", "{">>, <<"a", "=", "9">>, <<"a", "=", "8">> >>,
    << <<"a", "=", "8">>, <<"b", "=", "{">>, <<"a", "=", "9">>, <<"}">>,
       <<"a", "=", "9">> >>,
    << <<"b", "=", "{">>, <<"a", "=", "8">>, <<"}">>,
       <<"c", "=", "{">>, <<"a", "=", "9">>, <<"}">> >>,
    << <<"b", "=", "{">>, <<"a", "=", "8">>, <<"}">>,
       <<"c", "=", "{">>, <<"a", "=", "9">>, <<"a", "=", "8">>, <<"}">> >>,
    << <<"d", "=", "[">>, <<"{">>, <<"a", "=", "8">>, <<"}">>,
       <<"{">>, <<"a", "=", "8">>, <<"}">>, <<"]">> >>,
    << <<"b", "=", "{">>, <<"c", "=", "{">>, <<"a", "=", "8">>, <<"}">>,
       <<"a", "=", "9">>, <<"}">>, <<"a", "=", "8">> >> }

\* Documents with a directive whose argument is not one string
\* (test_pragma_format_error, test_perky_invalid_pragma), in a mapping and
\* in a sequence.
DirectiveDocuments == {
    << <<"=", "p", "r", "a", "g", "m", "a", " ", "[", "{", "=", "}", "]">> >>,
    << <<"a", "=", "b">>,
       <<"=", "i", "n", "c", "l", "u", "d", "e", " ", "'", "'", "'">>,
       <<"c", "=", "d">>, <<>> >>,
    << <<"d", "=", "[">>,
       <<"=", "i", "n", "c", "l", "u", "d", "e", " ", "{">>,
       <<"8">> >> }

\* The empty forms (test_empty_dicts_and_lists): the text and the kind of
\* container it stands for.
EmptyForms == {
    [text |-> <<"[", "]">>, kind |-> "list"],
    [text |-> <<"[", " ", "]">>, kind |-> "list"],
    [text |-> <<"[", " ", "\t", "]">>, kind |-> "list"],
    [text |-> <<"{", "}">>, kind |-> "dict"],
    [text |-> <<"{", " ", "}">>, kind |-> "dict"],
    [text |-> <<"{", "\t", " ", "}">>, kind |-> "dict"] }

\* Documents with an empty form as the value of a key and as the element
\* of a sequence, each followed by a line, and the document of the test.
EmptyFormDocuments ==
    { << <<"a", "=">> \o f.text, <<"b", "=", "8">> >> : f \in EmptyForms }
    \cup { << <<"a", " ", "=", " ">> \o f.text \o <<" ">>, <<"}">>, <<"b", "=", "8">> >> :
             f \in EmptyForms }
    \cup { << <<"d", "=", "[">>, <<" ", " ">> \o f.text, <<"8">>, <<"]">> >> :
             f \in EmptyForms }
    \cup { << <<"a", "=", "[", "]">>, <<"b", "=", "[", " ", "]">>,
              <<"c", "=", "{", "}">>, <<"d", "=", "{", " ", "}">> >> }

\* Text blocks (test_parse_trip_q_error and the blocks of TEST_INPUT_TEXT):
\* up to MaxBody body lines between the line that opens the block and a
\* line that closes it, as the value of a key and as the element of a
\* sequence.
MaxBody == 2

BodyLines == {
    <<>>,
    <<" ", " ">>,
    <<" ", "a">>,
    <<" ", " ", "a">>,
    <<" ", " ", " ", "a", " ">>,
    <<"\t", "a">>,
    <<"\"", "\"", "\"">> }

Closers == {
    <<"'", "'", "'">>,
    <<" ", " ", "'", "'", "'">>,
    <<" ", "'", "'", "'", " ">>,
    <<"\t", "'", "'", "'">> }

Bodies == UNION {[1..n -> BodyLines] : n \in 0..MaxBody}

TextblockDocuments ==
    { << <<"a", "=", "'", "'", "'">> >> \o body \o <<closer, <<"b", "=", "8">> >> :
         body \in Bodies, closer \in Closers }
    \cup { << <<"d", "=", "[">>, <<" ", "'", "'", "'", " ">> >> \o body \o <<closer>> :
             body \in [1..1 -> BodyLines], closer \in Closers }
    \cup { << <<"a", "=", "\"", "\"", "\"">>, <<" ", " ", "'", "'", "'">>, body,
              <<" ", " ", "\"", "\"", "\"">> >> : body \in BodyLines }

\* Lines of a mapping body of every shape: a third token that does not
\* start a value, one token, four tokens, two strings.
ShapeLines == {
    <<"a", "=", "=">>,
    <<"a", "=", "}">>,
    <<"a", "=", "]">>,
    <<"a", "=", "#", " ", "c">>,
    <<"a">>,
    <<"a", "=", "8", "=", "9">>,
    <<"{">>,
    <<"]">>,
    <<"a", "=", "8", " ", "#", " ", "c">>,
    <<"'", "a", "'", " ", "'", "b", "'">>,
    <<"a", " ", "=">>,
    <<"a", " ", "=", " ", "8">>,
    <<"a", "=", "{", "}", "8">> }

\* Each shape at the root and in a nested mapping, followed by a line.
ShapeDocuments ==
    { <<l, <<"b", "=", "8">> >> : l \in ShapeLines }
    \cup { << <<"b", "=", "{">>, l, <<"}">> >> : l \in ShapeLines }

\* Documents with a text block that no line closes: at the end of the
\* text, by the other marker, in a sequence.
UnclosedDocuments == {
    << <<"a", "=", "'", "'", "'">> >>,
    << <<"a", "=", "'", "'", "'">>, <<" ", " ", "a">> >>,
    << <<"a", "=", "'", "'", "'">>, <<"b", "=", "8">>, <<"\"", "\"", "\"">> >>,
    << <<"d", "=", "[">>, <<"'", "'", "'">>, <<"a">>, <<"]">> >>,
    << <<"a", "=", "\"", "\"", "\"">>, <<"'", "'", "'">>, <<"b", "=", "8">> >> }

Documents ==
    ShortDocuments \cup LongDocuments \cup DirectiveDocuments
    \cup EmptyFormDocuments \cup TextblockDocuments \cup ShapeDocuments
    \cup UnclosedDocuments

\* The parser record of the state (the variable parser with the heap as
\* its h), and the state of a parser record.
ParserState ==
    [h |-> heap, root |-> parser.root, _lines |-> parser._lines,
     lines |-> parser.lines, line |-> parser.line, frames |-> parser.frames,
     breadcrumbs |-> parser.breadcrumbs, pc |-> parser.pc,
     err |-> parser.err, result |-> parser.result]

WithoutHeap(p) ==
    [root |-> p.root, _lines |-> p._lines, lines |-> p.lines, line |-> p.line,
     frames |-> p.frames, breadcrumbs |-> p.breadcrumbs,
     pc |-> p.pc, err |-> p.err, result |-> p.result]

\* The caller of loads keeps what it held: caller is the root it passed as
\* root=, or None.
SetParser(p) ==
    /\ heap' = p.h
    /\ parser' = WithoutHeap(p) @@ [caller |-> parser.caller]

TripIdle == trip = [pc |-> "idle"]

CursorIdle == cursor = [pc |-> "idle"]

LexerIdle == lexer = [pc |-> "idle"]

ReaderIdle == reader = [pc |-> "idle"]

MergeIdle ==
    /\ mroots = <<>>
    /\ mheap0 = <<>>
    /\ mresult = [r |-> NoneVal, err |-> "none"]
    /\ mpc = "idle"

\* The documents loaded into a root of the caller.
RootedDocuments ==
    UNION {[1..n -> Catalogue] : n \in 1..(MaxLines - 1)} \cup LongDocuments

\* loads(s, root=d) for an empty dict or list d of the caller.
LoadsInto(doc, d) ==
    \E p \in {ParserNew(<<d>>, JoinLines(doc), 1)} :
       /\ heap = p.h
       /\ parser = WithoutHeap(p) @@ [caller |-> [ref |-> 1]]

\* loads(s): Parser(s) is constructed on a new root dict; or
\* loads(s, root=d).
Init ==
    /\ \/ \E doc \in Documents :
             \E p \in {ParserNew(<<NewDict(<<>>)>>, JoinLines(doc), 1)} :
                /\ heap = p.h
                /\ parser = WithoutHeap(p) @@ [caller |-> NoneVal]
       \/ \E doc \in RootedDocuments :
             \E d \in {NewDict(<<>>), NewList(<<>>)} : LoadsInto(doc, d)
    /\ MergeIdle
    /\ TripIdle
    /\ CursorIdle
    /\ LexerIdle
    /\ ReaderIdle

\* What self.lp yields next.
NextTokens == LineParserNext(parser.lines, parser.line)

Reading == parser.pc = "parse" /\ ~NextTokens.stop /\ NextTokens.err = "none"

\* p.parse()
Parse ==
    /\ parser.pc = "new"
    /\ \E p \in {parse(ParserState)} : SetParser(p)
    /\ UNCHANGED <<mergeVars, trip, cursor, lexer, reader>>

\* A line whose first token is EQUALS: the directive dispatch.
PragmaLine ==
    /\ Reading
    /\ NextTokens.tokens[1].tok = "EQUALS"
    /\ \E p \in {ParserStep(ParserState)} : SetParser(p)
    /\ UNCHANGED <<mergeVars, trip, cursor, lexer, reader>>

\* Any other line read by the loop of _read_dict.
DictLine ==
    /\ Reading
    /\ NextTokens.tokens[1].tok # "EQUALS"
    /\ Top(parser.frames).kind = "dict"
    /\ \E p \in {ParserStep(ParserState)} : SetParser(p)
    /\ UNCHANGED <<mergeVars, trip, cursor, lexer, reader>>

\* Any other line read by the loop of _read_list.
ListLine ==
    /\ Reading
    /\ NextTokens.tokens[1].tok # "EQUALS"
    /\ Top(parser.frames).kind = "list"
    /\ \E p \in {ParserStep(ParserState)} : SetParser(p)
    /\ UNCHANGED <<mergeVars, trip, cursor, lexer, reader>>

\* tokenize raises on the line read.
TokenizeRaises ==
    /\ parser.pc = "parse"
    /\ NextTokens.err # "none"
    /\ \E p \in {ParserStep(ParserState)} : SetParser(p)
    /\ UNCHANGED <<mergeVars, trip, cursor, lexer, reader>>

\* No line with tokens is left: every loop ends and loads returns.
EndOfInput ==
    /\ parser.pc = "parse"
    /\ NextTokens.stop
    /\ \E p \in {ParserStep(ParserState)} : SetParser(p)
    /\ UNCHANGED <<mergeVars, trip, cursor, lexer, reader>>

Next == Parse \/ PragmaLine \/ DictLine \/ ListLine \/ TokenizeRaises \/ EndOfInput

Spec == Init /\ [][Next]_vars

(***************************************************************************)
(* SpecRoundTrip: dumps(d), loads of its text, dumps of what loads         *)
(* returned, for a dict d of strs, dicts and lists.                        *)
(***************************************************************************)
MaxItems == 2

\* Keys: written bare by serialize (-, #, =, a key with a leading space)
\* and passed to quoted_string (a).
TripKeys == { <<"-">>, <<"#">>, <<"=">>, <<" ", "a">>, <<"a">> }

\* Values: plain, with a space inside, with a leading space, starting with
\* a quote, of several lines, an operator, with a backslash, empty.
TripStrs == {
    <<"8">>,
    <<"a", " ", "b">>,
    <<" ", "a">>,
    <<"'", "a">>,
    <<"a", "\n", "b">>,
    <<"=">>,
    <<" ", "\\", " ">>,
    <<>> }

\* The characters c of the dicts {c: c}: the printable characters of Chars
\* that are not whitespace.
TripChars == Chars \ (SpaceChars \cup {"BEL", "BS"})

TripLeaves == {[str |-> s] : s \in TripStrs}

\* The sequences of 0..MaxItems entries with keys all different.
TripEntries(values) ==
    UNION { {e \in [1..n -> TripKeys \X values] :
                \A i, j \in 1..n : i # j => e[i][1] # e[j][1]} : n \in 0..MaxItems }

\* Nested values: a dict of one entry, a list of up to MaxItems strs.
TripNested ==
    {[d |-> << <<k, v>> >>] : k \in {<<"-">>, <<"a">>}, v \in {[str |-> <<"8">>], [str |-> <<" ", "a">>]}}
    \cup UNION { {[l |-> e] : e \in [1..n -> {[str |-> <<"8">>], [str |-> <<" ", "a">>]}]} :
                 n \in 0..MaxItems }

TripTrees ==
    {[d |-> e] : e \in TripEntries(TripLeaves)}
    \cup {[d |-> << <<k, v>> >>] : k \in TripKeys, v \in TripNested}
    \cup {[d |-> << <<(<<c>>), [str |-> <<c>>]>> >>] : c \in TripChars}

ParserIdle == parser = [pc |-> "idle"]

InitRoundTrip ==
    /\ \E t \in TripTrees :
          \E st \in {Store(<<>>, t)} :
             /\ heap = st.h
             /\ trip = [pc |-> "dumps", d |-> st.v, text |-> NoneVal,
                        back |-> NoneVal, text2 |-> NoneVal, err |-> "none"]
    /\ ParserIdle
    /\ MergeIdle
    /\ CursorIdle
    /\ LexerIdle
    /\ ReaderIdle

\* text = dumps(d)
Dumps ==
    /\ trip.pc = "dumps"
    /\ \E r \in {dumps(heap, trip.d)} :
          trip' = IF r.err # "none" THEN [trip EXCEPT !.pc = "raised", !.err = r.err]
                  ELSE [trip EXCEPT !.pc = "loads", !.text = Str(r.text)]
    /\ UNCHANGED <<heap, parser, mergeVars, cursor, lexer, reader>>

\* back = loads(text)
Loads ==
    /\ trip.pc = "loads"
    /\ \E p \in {loads(heap, trip.text.str)} :
          /\ heap' = p.h
          /\ trip' = IF p.pc = "raised"
                     THEN [trip EXCEPT !.pc = "raised", !.err = p.err.kind]
                     ELSE [trip EXCEPT !.pc = "redump", !.back = p.result]
    /\ UNCHANGED <<parser, mergeVars, cursor, lexer, reader>>

\* text2 = dumps(back)
DumpsAgain ==
    /\ trip.pc = "redump"
    /\ \E r \in {dumps(heap, trip.back)} :
          trip' = IF r.err # "none" THEN [trip EXCEPT !.pc = "raised", !.err = r.err]
                  ELSE [trip EXCEPT !.pc = "done", !.text2 = Str(r.text)]
    /\ UNCHANGED <<heap, parser, mergeVars, cursor, lexer, reader>>

NextRoundTrip == Dumps \/ Loads \/ DumpsAgain

SpecRoundTrip == InitRoundTrip /\ [][NextRoundTrip]_vars

(***************************************************************************)
(* SpecMerge: merge_dicts_and_lists called on one to MaxRoots roots.       *)
(***************************************************************************)
MaxRoots == 3

S(c) == [str |-> <<c>>]

K(c) == <<c>>

\* Roots to merge: dicts and lists that nest dicts and lists, keys held by
\* several roots, by one root, with str and with container values.
MergeDicts == {
    [d |-> <<>>],
    [d |-> << <<K("a"), S("1")>>, <<K("s"), [d |-> << <<K("x"), S("1")>> >>]>> >>],
    [d |-> << <<K("a"), S("2")>>,
              <<K("s"), [d |-> << <<K("y"), S("3")>>, <<K("x"), S("2")>> >>]>>,
              <<K("l"), [l |-> <<S("1")>>]>> >>],
    [d |-> << <<K("b"), S("3")>> >>],
    [d |-> << <<K("s"), [d |-> << <<K("y"), S("4")>>,
                               <<K("n"), [d |-> << <<K("z"), S("1")>> >>]>> >>]>>,
              <<K("l"), [l |-> <<S("2"), [d |-> << <<K("x"), S("1")>> >>]>>]>> >>],
    [d |-> << <<K("l"), [l |-> << [d |-> << <<K("x"), S("2")>> >>], S("2") >>]>>,
              <<K("a"), S("5")>>,
              <<K("s"), [d |-> << <<K("n"), [d |-> << <<K("w"), S("3")>>, <<K("z"), S("2")>> >>]>> >>]>> >>] }

MergeLists == {
    [l |-> <<>>],
    [l |-> <<S("1"), S("2")>>],
    [l |-> <<S("3"), S("4")>>],
    [l |-> << [d |-> << <<K("x"), S("1")>> >>], [l |-> <<S("1")>>] >>] }

\* Roots that do not have the shape of the others: s holds a str, a holds a
\* dict, l holds a dict.
MergeMisfits == {
    [d |-> << <<K("s"), S("1")>> >>],
    [d |-> << <<K("a"), [d |-> <<>>]>>, <<K("l"), [d |-> <<>>]>> >>] }

MergeRoots == MergeDicts \cup MergeLists \cup MergeMisfits

RootSeqs == UNION {[1..n -> MergeRoots] : n \in 1..MaxRoots}

InitMerge ==
    \E ts \in RootSeqs :
        \E st \in {StoreAll(<<>>, ts, <<>>)} :
        /\ heap = st.h
        /\ mroots = st.vs
        /\ mheap0 = st.h
        /\ mresult = [r |-> NoneVal, err |-> "none"]
        /\ mpc = "call"
        /\ parser = [pc |-> "idle"]
        /\ trip = [pc |-> "idle"]
        /\ CursorIdle
        /\ LexerIdle
        /\ ReaderIdle

\* The call merge_dicts_and_lists(*mroots) and its return or exception.
Merge ==
    /\ mpc = "call"
    /\ \E res \in {merge_dicts_and_lists(heap, mroots)} :
       /\ heap' = res.h
       /\ mresult' = [r |-> res.r, err |-> res.err]
    /\ mpc' = "done"
    /\ UNCHANGED <<mroots, mheap0, parser, trip, cursor, lexer, reader>>

NextMerge == Merge

SpecMerge == InitMerge /\ [][NextMerge]_vars

(***************************************************************************)
(* SpecCursor: a pushback_str_iterator on a text, and up to MaxCalls calls *)
(* of push, next, bool and drain on it (test_pushback_str_iterator).  The  *)
(* calls made and what each returned are kept in cursor.calls.             *)
(***************************************************************************)
MaxCalls == 5

CursorTexts == {<<>>, <<"a">>, <<"a", "b">>}

PushStrings == {<<>>, <<"c">>, <<"d", "n">>}

\* A call and its outcome: ret the characters returned, stop whether next
\* raised StopIteration or bool returned False.
Call(op, arg, ret, stop) == [op |-> op, arg |-> arg, ret |-> ret, stop |-> stop]

\* i = pushback_str_iterator(s)
InitCursor ==
    /\ \E s \in CursorTexts :
          cursor = [pc |-> "run", s |-> s, its |-> CurNew(s), calls |-> <<>>]
    /\ heap = <<>>
    /\ ParserIdle
    /\ MergeIdle
    /\ TripIdle
    /\ LexerIdle
    /\ ReaderIdle

CursorCalled(its, call) ==
    /\ cursor' = [cursor EXCEPT !.its = its, !.calls = Append(@, call)]
    /\ UNCHANGED <<heap, parser, mergeVars, trip, lexer, reader>>

\* i.push(s)
CursorPush ==
    /\ cursor.pc = "run"
    /\ Len(cursor.calls) < MaxCalls
    /\ \E s \in PushStrings :
          CursorCalled(CurPush(cursor.its, s), Call("push", s, <<>>, FALSE))

\* next(i)
CursorNext ==
    /\ cursor.pc = "run"
    /\ Len(cursor.calls) < MaxCalls
    /\ \E n \in {CurNext(cursor.its)} :
          CursorCalled(n.its, Call("next", <<>>,
                                   IF n.stop THEN <<>> ELSE <<n.c>>, n.stop))

\* bool(i)
CursorBool ==
    /\ cursor.pc = "run"
    /\ Len(cursor.calls) < MaxCalls
    /\ \E b \in {CurBool(cursor.its)} :
          CursorCalled(b.its, Call("bool", <<>>, <<>>, ~b.b))

\* i.drain()
CursorDrain ==
    /\ cursor.pc = "run"
    /\ Len(cursor.calls) < MaxCalls
    /\ \E d \in {CurDrain(cursor.its)} :
          CursorCalled(d.its, Call("drain", <<>>, d.s, FALSE))

NextCursor == CursorPush \/ CursorNext \/ CursorBool \/ CursorDrain

SpecCursor == InitCursor /\ [][NextCursor]_vars

(***************************************************************************)
(* SpecTokenize: the generator tokenize(s, suppress_whitespace) on one     *)
(* line, a step for each turn of its main loop.  lexer.its is the cursor   *)
(* i, lexer.toks the tokens yielded so far, lexer.pc "loop", "done" (the   *)
(* generator returned) or "raised" (lexer.err left it).                    *)
(***************************************************************************)
MaxLineLen == 4

LineChars == {"a", " ", "=", "'", "{", "}", "#"}

\* Every line of up to MaxLineLen characters.
ShortLines == UNION {[1..n -> LineChars] : n \in 0..MaxLineLen}

\* Lines in the manner of test_tokenizer and test_invalid_string.
TestLines ==
    {<<"x", " ", "=", " ", "'", "'", "'", " ", "y">>,
     <<"[", " ", "]">>,
     <<"[", "]">>,
     <<"{", " ", "\t", "}">>,
     <<"x", "=", "[">>,
     <<" ", "'", "q", "'", " ", "\"", "r", "\"", " ", "[", " ", "{", " ", "=", " ", "]", " ", "}", " ", "'", "'", "'", " ">>,
     <<"x", "=", "\"", "q", " ", "s", "\"">>,
     <<"\"", "\"", "\"", "x">>,
     <<"a", "\t", "=", "\t", "{", "\t", "}">>,
     <<"=", "'", "'", "'", " ">>,
     <<"[", "{", "}", "]">>,
     <<"a", " ", "=", " ", "'", "b", "'", " ", "#", " ", "c">>}

Lines == ShortLines \cup TestLines

\* i = pushback_str_iterator(s)
InitTokenize ==
    /\ \E s \in Lines, suppress_whitespace \in BOOLEAN :
          lexer = [pc |-> "loop", s |-> s, suppress_whitespace |-> suppress_whitespace,
                   its |-> CurNew(s), toks |-> <<>>, err |-> "none"]
    /\ heap = <<>>
    /\ ParserIdle
    /\ MergeIdle
    /\ TripIdle
    /\ CursorIdle
    /\ ReaderIdle

\* The turn of the main loop that read c is over: its tokens are yielded
\* and the loop goes on, or the generator returned or raised.
Yielded(r) ==
    /\ lexer' = [lexer EXCEPT !.its = r.its,
                              !.toks = @ \o r.out,
                              !.err = r.err,
                              !.pc = IF r.err # "none" THEN "raised"
                                     ELSE IF r.return THEN "done" ELSE "loop"]
    /\ UNCHANGED <<heap, parser, mergeVars, trip, cursor, reader>>

\* for c in i, c.isspace()
TokenizeWhitespace ==
    /\ lexer.pc = "loop"
    /\ \E n \in {CurNext(lexer.its)} :
          /\ ~n.stop
          /\ IsSpace(n.c)
          /\ Yielded(TokBody(n.c, n.its, lexer.suppress_whitespace))

\* for c in i, c starts an operator
TokenizeOperator ==
    /\ lexer.pc = "loop"
    /\ \E n \in {CurNext(lexer.its)} :
          /\ ~n.stop
          /\ ~IsSpace(n.c)
          /\ n.c \in token_first_characters
          /\ Yielded(TokBody(n.c, n.its, lexer.suppress_whitespace))

\* for c in i, any other c: an unquoted string
TokenizeUnquoted ==
    /\ lexer.pc = "loop"
    /\ \E n \in {CurNext(lexer.its)} :
          /\ ~n.stop
          /\ ~IsSpace(n.c)
          /\ n.c \notin token_first_characters
          /\ Yielded(TokBody(n.c, n.its, lexer.suppress_whitespace))

\* for c in i ends: the line is exhausted
TokenizeEnd ==
    /\ lexer.pc = "loop"
    /\ \E n \in {CurNext(lexer.its)} :
          /\ n.stop
          /\ lexer' = [lexer EXCEPT !.its = n.its, !.pc = "done"]
    /\ UNCHANGED <<heap, parser, mergeVars, trip, cursor, reader>>

NextTokenize ==
    TokenizeWhitespace \/ TokenizeOperator \/ TokenizeUnquoted \/ TokenizeEnd

SpecTokenize == InitTokenize /\ [][NextTokenize]_vars

(***************************************************************************)
(* SpecReader: a LineParser on a text, and up to MaxReads calls of         *)
(* next_line, tokens and bool on it.  reader.lines are the lines the       *)
(* enumerate self.lines has yet to yield; the calls made and how each      *)
(* ended are kept in reader.calls.                                         *)
(***************************************************************************)
MaxReaderLines == 2

MaxReads == 4

ReaderLines == {<<>>, <<"a">>, <<" ">>, <<"a", "=", "b">>, <<"'">>}

\* The texts of one to MaxReaderLines lines.
ReaderTexts ==
    {JoinLines(ls) : ls \in UNION {[1..n -> ReaderLines] : n \in 1..MaxReaderLines}}

\* A call and how it ended: outcome is "returned" or the exception raised.
ReaderCall(op, ret, outcome) == [op |-> op, ret |-> ret, outcome |-> outcome]

\* bool() of an enumerate object: the type has neither __bool__ nor
\* __len__, so the object is true whatever it has yet to yield.
EnumerateBool(lines) == TRUE

\* lp = LineParser(s)
InitReader ==
    /\ \E s \in ReaderTexts :
          reader = [pc |-> "run", _lines |-> SplitLines(s), lines |-> SplitLines(s),
                    calls |-> <<>>]
    /\ heap = <<>>
    /\ ParserIdle
    /\ MergeIdle
    /\ TripIdle
    /\ CursorIdle
    /\ LexerIdle

ReaderCalled(lines, call) ==
    /\ reader' = [reader EXCEPT !.lines = lines, !.calls = Append(@, call)]
    /\ UNCHANGED <<heap, parser, mergeVars, trip, cursor, lexer>>

\* lp.next_line(): next() on the exhausted enumerate raises StopIteration.
ReaderNextLine ==
    /\ reader.pc = "run"
    /\ Len(reader.calls) < MaxReads
    /\ IF reader.lines = <<>>
       THEN ReaderCalled(<<>>, ReaderCall("next_line", <<>>, "StopIteration"))
       ELSE ReaderCalled(Tail(reader.lines),
                         ReaderCall("next_line", Head(reader.lines), "returned"))

\* lp.tokens(): the tokens of the next line that has some; at the end of
\* the lines the StopIteration of next_line leaves the call.
ReaderTokens ==
    /\ reader.pc = "run"
    /\ Len(reader.calls) < MaxReads
    /\ \E n \in {LineParserNext(reader.lines, <<>>)} :
          ReaderCalled(n.lines,
                       ReaderCall("tokens", n.tokens,
                                  IF n.stop THEN "StopIteration"
                                  ELSE IF n.err # "none" THEN n.err
                                  ELSE "returned"))

\* bool(lp)
ReaderBool ==
    /\ reader.pc = "run"
    /\ Len(reader.calls) < MaxReads
    /\ ReaderCalled(reader.lines,
                    ReaderCall("bool", EnumerateBool(reader.lines), "returned"))

NextReader == ReaderNextLine \/ ReaderTokens \/ ReaderBool

SpecReader == InitReader /\ [][NextReader]_vars

(***************************************************************************)
(* The merge's contract (C8, C9)                                           *)
(***************************************************************************)
IsStrTree(t) == DOMAIN t = {"str"}

IsDictTree(t) == DOMAIN t = {"dict"}

IsListTree(t) == DOMAIN t = {"list"}

\* The values held under key k by the trees of ts that hold it, in order.
RECURSIVE HoldersOf(_, _)
HoldersOf(ts, k) ==
    IF ts = <<>> THEN <<>>
    ELSE (IF k \in DOMAIN Head(ts).dict THEN <<Head(ts).dict[k]>> ELSE <<>>)
            \o HoldersOf(Tail(ts), k)

AllKeys(ts) == UNION {DOMAIN ts[i].dict : i \in 1..Len(ts)}

\* The roots have the same shape: all lists, or all dicts in which every key
\* holds strs only, lists only, or dicts only that have the same shape.
RECURSIVE SameShape(_)
SameShape(ts) ==
    \/ \A i \in 1..Len(ts) : IsListTree(ts[i])
    \/ /\ \A i \in 1..Len(ts) : IsDictTree(ts[i])
       /\ \A k \in AllKeys(ts) :
            \/ \A i \in 1..Len(HoldersOf(ts, k)) : IsStrTree(HoldersOf(ts, k)[i])
            \/ SameShape(HoldersOf(ts, k))

RECURSIVE ConcatLists(_)
ConcatLists(ts) ==
    IF ts = <<>> THEN <<>> ELSE Head(ts).list \o ConcatLists(Tail(ts))

\* The reference merge of same-shaped trees.
RECURSIVE RefMerge(_)
RefMerge(ts) ==
    IF IsListTree(ts[1]) THEN [list |-> ConcatLists(ts)]
    ELSE [dict |-> [k \in AllKeys(ts) |->
                      IF IsStrTree(HoldersOf(ts, k)[1])
                      THEN HoldersOf(ts, k)[Len(HoldersOf(ts, k))]
                      ELSE RefMerge(HoldersOf(ts, k))]]

\* The trees passed to the merge, as they were at the call.
MergeInputs == [i \in 1..Len(mroots) |-> TreeOf(mheap0, mroots[i])]

\* C8: merge_dicts_and_lists of same-shaped roots returns the reference
\* merge: a key of one root passes through, a key holding dicts or lists is
\* merged recursively over the roots holding it, a key holding strs takes
\* the value of the last root holding it, and lists are concatenated in
\* argument order without merging or dropping elements.
C8_MergeIsReferenceMerge ==
    (mpc = "done" /\ SameShape(MergeInputs)) =>
        /\ mresult.err = "none"
        /\ TreeOf(heap, mresult.r) = RefMerge(MergeInputs)

\* C8's case: three dicts that all hold the str key a and the dict key s
\* have been merged; a has the last root's value and s the keys of all three.
C8_Witness ==
    /\ mpc = "done"
    /\ mresult.err = "none"
    /\ Len(mroots) = 3
    /\ SameShape(MergeInputs)
    /\ \A i \in 1..3 : IsDictTree(MergeInputs[i])
    /\ \A i \in 1..3 : {K("a"), K("s")} \subseteq DOMAIN MergeInputs[i].dict
    /\ MergeInputs[1].dict[K("a")] # MergeInputs[3].dict[K("a")]
    /\ TreeOf(heap, mresult.r).dict[K("a")] = MergeInputs[3].dict[K("a")]
    /\ {K("x"), K("y"), K("n")} \subseteq DOMAIN TreeOf(heap, mresult.r).dict[K("s")].dict

\* C9: when merge_dicts_and_lists has returned (or raised), every object
\* that existed at the call, the roots and all they nest, is as it was.
C9_MergeLeavesInputs ==
    mpc = "done" =>
        /\ Len(heap) >= Len(mheap0)
        /\ \A id \in 1..Len(mheap0) : heap[id] = mheap0[id]

\* C9's case: several roots with nested containers were merged into a new
\* object.
C9_Witness ==
    /\ mpc = "done"
    /\ mresult.err = "none"
    /\ Len(mroots) >= 2
    /\ mresult.r.ref > Len(mheap0)
    /\ \E i, j \in 1..Len(mroots) :
          /\ i < j
          /\ TypeOf(mheap0, mroots[i]) = "dict"
          /\ \E k \in KeysOf(mheap0[mroots[i].ref].items) :
                /\ IsRef(DictGet(mheap0[mroots[i].ref].items, k))
                /\ TypeOf(mheap0, mroots[j]) = "dict"
                /\ DictHas(mheap0[mroots[j].ref].items, k)

(***************************************************************************)
(* The parser's contract (C4 to C7, C10 to C19)                             *)
(***************************************************************************)
\* The innermost container being filled.
Leaf == Top(parser.breadcrumbs)

\* The line read next is an entry of a mapping: STRING = or STRING = VALUE
\* read by the loop of _read_dict.
EntryNext ==
    /\ Reading
    /\ Top(parser.frames).kind = "dict"
    /\ Len(NextTokens.tokens) \in 2..3
    /\ NextTokens.tokens[1].tok = "STRING"
    /\ NextTokens.tokens[2].tok = "EQUALS"

EntryKey == Strip(NextTokens.tokens[1].val)

RepeatedKeyError(e, key) ==
    /\ e.kind = "PerkyFormatError"
    /\ e.message = [text |-> "Invalid Perky dict: repeated key", arg |-> key]

\* The key is held by a container of the document other than c.
HeldElsewhere(h, c, key) ==
    \E i \in 1..Len(h) : i # c /\ h[i].kind = "dict" /\ DictHas(h[i].items, key)

\* C4: an entry whose key the mapping being filled already holds raises the
\* repeated-key PerkyFormatError; an entry whose key that mapping does not
\* hold raises no repeated-key error, whatever the other mappings of the
\* document hold (the text block it opens may raise its own error).
C4_DuplicateKeyPerContainer ==
    [][EntryNext =>
          IF DictHas(heap[Leaf].items, EntryKey)
          THEN parser'.pc = "raised" /\ RepeatedKeyError(parser'.err, EntryKey)
          ELSE /\ parser'.err.message.text # "Invalid Perky dict: repeated key"
               /\ parser'.err.kind = "PerkyFormatError" =>
                     NextTokens.tokens[Len(NextTokens.tokens)].tok
                        \in triple_quote_tokens]_vars

\* A nested mapping has taken the key a that its parent holds, and the
\* second a = of the nested mapping has raised.
C4_Witness ==
    /\ parser.pc = "raised"
    /\ RepeatedKeyError(parser.err, <<"a">>)
    /\ Len(parser.breadcrumbs) = 2
    /\ DictHas(heap[parser.root].items, <<"a">>)
    /\ DictHas(heap[Leaf].items, <<"a">>)
    /\ HeldElsewhere(heap, Leaf, <<"a">>)

\* The line read next is a directive: its first token is EQUALS.
PragmaNext == Reading /\ NextTokens.tokens[1].tok = "EQUALS"

\* The directive's name and argument, as _parse_pragma splits the line.
PragmaFields == SplitOnce(Strip(Tail(Strip(NextTokens.line))))

PragmaName == Lower(PragmaFields[1])

\* The line read next is an include directive that names a file there is.
IncludeNext ==
    /\ PragmaNext
    /\ Len(PragmaFields) = 2
    /\ PragmaName = <<"i", "n", "c", "l", "u", "d", "e">>
    /\ PragmaName \in pragmas
    /\ \E f \in IncludeFiles : f.name = PragmaFields[2]

IncludedFile == CHOOSE f \in IncludeFiles : f.name = PragmaFields[2]

\* The tree a file holds: what loads returns for its text.
FileTree(f) ==
    Only({ TreeOf(r.h, r.result) : r \in {loads(<<>>, f.text)} })

\* C10: a directive whose name is not in the registry raises a
\* PerkyFormatError that names the directive, with tokens None and line the
\* directive line as written; no container changes.
C10_UnknownDirective ==
    [][(PragmaNext /\ PragmaFields # <<>> /\ PragmaName \notin pragmas) =>
          /\ parser'.pc = "raised"
          /\ parser'.err.kind = "PerkyFormatError"
          /\ parser'.err.message = [text |-> "Unknown pragma", arg |-> PragmaName]
          /\ parser'.err.tokens = NoneVal
          /\ parser'.err.line = Str(NextTokens.line)
          /\ heap' = heap]_vars

\* The mapping being filled holds a scalar under a key that the file of the
\* include directive read next defines too.
IncludeConflictNext ==
    /\ IncludeNext
    /\ heap[Leaf].kind = "dict"
    /\ \E k \in KeysOf(heap[Leaf].items) \cap DOMAIN FileTree(IncludedFile).dict :
          IsStr(DictGet(heap[Leaf].items, k))

\* C5: an include directive in a mapping body that has defined a scalar the
\* file defines too raises nothing, leaves every scalar the body had
\* defined as it was, and adds the file's other keys.
C5_IncludeEnclosingWins ==
    [][IncludeConflictNext =>
          /\ parser'.pc = "parse"
          /\ \A k \in KeysOf(heap[Leaf].items) :
                IsStr(DictGet(heap[Leaf].items, k)) =>
                   /\ DictHas(heap'[Leaf].items, k)
                   /\ DictGet(heap'[Leaf].items, k) = DictGet(heap[Leaf].items, k)
          /\ \A k \in DOMAIN FileTree(IncludedFile).dict :
                k \notin KeysOf(heap[Leaf].items) =>
                   /\ DictHas(heap'[Leaf].items, k)
                   /\ TreeOf(heap', DictGet(heap'[Leaf].items, k))
                         = FileTree(IncludedFile).dict[k]]_vars

IncludeLine(name) == <<"=", "i", "n", "c", "l", "u", "d", "e", " ">> \o name

\* C6: a document that includes two files which both define the scalar key
\* k is loaded without error and its k is the one of the file included last.
C6_LaterIncludeWins ==
    \A f1 \in IncludeFiles : \A f2 \in IncludeFiles :
       \A k \in DOMAIN FileTree(f1).dict \cap DOMAIN FileTree(f2).dict :
          (/\ f1 # f2
           /\ IsStrTree(FileTree(f1).dict[k])
           /\ IsStrTree(FileTree(f2).dict[k])
           /\ parser._lines = <<IncludeLine(f1.name), IncludeLine(f2.name)>>
           /\ parser.pc \in {"done", "raised"})
          => /\ parser.pc = "done"
             /\ DictHas(heap[parser.root].items, k)
             /\ DictGet(heap[parser.root].items, k) = FileTree(f2).dict[k]

\* C7: an include directive raises nothing and leaves the parser's stack and
\* root as they were; the innermost container is then the merge of what it
\* held and of the file's tree, and every other container is as it was.
C7_IncludeRefillsInPlace ==
    [][IncludeNext =>
          /\ parser'.pc = "parse"
          /\ parser'.breadcrumbs = parser.breadcrumbs
          /\ parser'.root = parser.root
          /\ TreeOf(heap', [ref |-> Leaf])
                = RefMerge(<<TreeOf(heap, [ref |-> Leaf]), FileTree(IncludedFile)>>)
          /\ \A i \in 1..Len(heap) : i # Leaf => heap'[i] = heap[i]]_vars

\* The tokens of the argument of the directive read next.
PragmaArgument == tokenize(PragmaFields[2], TRUE)

\* The line read next is a directive with an argument that lexes to
\* something other than one STRING token.
BadArgumentNext ==
    /\ PragmaNext
    /\ Len(PragmaFields) = 2
    /\ PragmaArgument.err = "none"
    /\ (Len(PragmaArgument.toks) # 1 \/ PragmaArgument.toks[1].tok # "STRING")

\* C11: a directive whose argument does not lex to exactly one STRING token
\* raises the PerkyFormatError "invalid pragma argument" with tokens the
\* text of the argument and line the directive line as written; no handler
\* runs (no container changes) and the lines that follow are not read.
C11_InvalidPragmaArgument ==
    [][BadArgumentNext =>
          /\ parser'.pc = "raised"
          /\ parser'.err.kind = "PerkyFormatError"
          /\ parser'.err.message =
                [text |-> "Invalid pragma argument", arg |-> PragmaFields[2]]
          /\ parser'.err.tokens = Str(PragmaFields[2])
          /\ parser'.err.line = Str(NextTokens.line)
          /\ parser'.lines = NextTokens.lines
          /\ heap' = heap]_vars

\* The token an empty form lexes to.
EmptyToken(f) ==
    IF f.kind = "list" THEN Tok("EMPTY_SQUARE_BRACKETS", <<"[", "]">>)
    ELSE Tok("EMPTY_CURLY_BRACES", <<"{", "}">>)

EmptyContainer(f) == IF f.kind = "list" THEN NewList(<<>>) ELSE NewDict(<<>>)

EmptyFormKeys == {<<"a">>, <<"b">>, <<"c">>, <<"d">>}

\* The line n that the loop of _read_dict reads next is k = f for an empty
\* form f and a key k the mapping does not hold.
EmptyValueNext(n, k, f) ==
    /\ Top(parser.frames).kind = "dict"
    /\ \E sp \in {<<>>, <<" ">>} :
          Strip(n.line) = k \o sp \o <<"=">> \o sp \o f.text
    /\ ~DictHas(heap[Leaf].items, k)

\* The line n that the loop of _read_list reads next is the empty form f.
EmptyElementNext(n, f) ==
    /\ Top(parser.frames).kind = "list"
    /\ Strip(n.line) = f.text

\* The value v is a new, empty container of the kind of f.
IsNewEmpty(v, f) ==
    /\ IsRef(v)
    /\ v.ref \notin 1..Len(heap)
    /\ heap'[v.ref] = EmptyContainer(f)

\* C12: an empty form lexes to the one token EMPTY_SQUARE_BRACKETS or
\* EMPTY_CURLY_BRACES; as the value of a key it stores a new empty sequence
\* or mapping under the key, as the element of a sequence it appends one;
\* the same containers stay open and only that line is consumed.
C12_EmptyForms ==
    [][parser.pc = "parse" =>
          \A n \in {NextTokens} :
             (~n.stop /\ n.err = "none") =>
                \A f \in EmptyForms :
                   /\ \A k \in EmptyFormKeys :
                         EmptyValueNext(n, k, f) =>
                            /\ n.tokens = <<Tok("STRING", k), Tok("EQUALS", <<"=">>),
                                            EmptyToken(f)>>
                            /\ parser'.pc = "parse"
                            /\ parser'.breadcrumbs = parser.breadcrumbs
                            /\ parser'.lines = n.lines
                            /\ KeysOf(heap'[Leaf].items) =
                                  KeysOf(heap[Leaf].items) \cup {k}
                            /\ IsNewEmpty(DictGet(heap'[Leaf].items, k), f)
                   /\ EmptyElementNext(n, f) =>
                         /\ n.tokens = <<EmptyToken(f)>>
                         /\ parser'.pc = "parse"
                         /\ parser'.breadcrumbs = parser.breadcrumbs
                         /\ parser'.lines = n.lines
                         /\ Len(heap'[Leaf].items) = Len(heap[Leaf].items) + 1
                         /\ IsNewEmpty(heap'[Leaf].items[Len(heap'[Leaf].items)], f)]_vars

\* The document of the test has been loaded: a and b are empty sequences,
\* c and d empty mappings, each read from its own line.
C12_Witness ==
    /\ parser.pc = "done"
    /\ Len(parser._lines) = 4
    /\ TreeOf(heap, parser.result) =
          [dict |-> (<<"a">> :> [list |-> <<>>]) @@ (<<"b">> :> [list |-> <<>>])
                    @@ (<<"c">> :> [dict |-> <<>>]) @@ (<<"d">> :> [dict |-> <<>>])]

\* The line n read next opens a text block: its last token is a triple
\* quote, after STRING = in a mapping whose key is new, alone in a sequence.
BlockNext(n) ==
    /\ n.tokens[Len(n.tokens)].tok \in triple_quote_tokens
    /\ IF Top(parser.frames).kind = "dict"
       THEN /\ Len(n.tokens) = 3
            /\ n.tokens[1].tok = "STRING"
            /\ n.tokens[2].tok = "EQUALS"
            /\ ~DictHas(heap[Leaf].items, Strip(n.tokens[1].val))
       ELSE Len(n.tokens) = 1

BlockMarker(n) == n.tokens[Len(n.tokens)].val

\* The lines that close the block: all whitespace but for the marker.
BlockClosers(n) ==
    {i \in 1..Len(n.lines) : Strip(n.lines[i]) = BlockMarker(n)}

BlockCloser(n) == CHOOSE i \in BlockClosers(n) : \A j \in BlockClosers(n) : i <= j

\* The body lines, without the whitespace they end with.
BlockBody(n) == [j \in 1..(BlockCloser(n) - 1) |-> RStrip(n.lines[j])]

\* The prefix: the whitespace the closing line starts with.
BlockPrefix(n) ==
    SubSeq(n.lines[BlockCloser(n)], 1,
           Len(RStrip(n.lines[BlockCloser(n)])) - Len(BlockMarker(n)))

\* The body lines that do not start with the prefix and are not empty.
BlockOutdented(body, prefix) ==
    {j \in 1..Len(body) :
        /\ body[j] # <<>>
        /\ \A r \in {SubSeq(body[j], i, Len(body[j])) : i \in 1..(Len(body[j]) + 1)} :
              body[j] # prefix \o r}

\* The value the step has stored in the innermost container.
BlockStored(n) ==
    IF heap[Leaf].kind = "dict" THEN DictGet(heap'[Leaf].items, Strip(n.tokens[1].val))
    ELSE heap'[Leaf].items[Len(heap'[Leaf].items)]

\* The step from the line n that opens a block of the lines body, closed
\* by a line with that prefix, after which the lines rest stay.
BlockStep(n, body, prefix, rest) ==
    IF prefix # <<>> /\ BlockOutdented(body, prefix) # {}
    THEN /\ parser'.pc = "raised"
         /\ parser'.err.kind = "PerkyFormatError"
         /\ parser'.err.message.text =
               "Format error: malformed line triple-quoted block"
         /\ \E j \in BlockOutdented(body, prefix) : parser'.err.line = Str(body[j])
         /\ heap'[Leaf] = heap[Leaf]
    ELSE /\ parser'.pc = "parse"
         /\ parser'.lines = rest
         /\ IsStr(BlockStored(n))
         /\ IF body = <<>> THEN BlockStored(n).str = <<>>
            ELSE \A stored \in {SplitLines(BlockStored(n).str)} :
                    /\ Len(stored) = Len(body)
                    /\ \A j \in 1..Len(body) :
                          \/ body[j] = <<>> /\ stored[j] = <<>>
                          \/ body[j] = prefix \o stored[j]

\* C13: a text block that a line closes.  If the prefix is not empty and a
\* body line is neither empty nor starts with the prefix, the step raises
\* the malformed-block PerkyFormatError with such a line as its line and
\* stores nothing.  Otherwise the value stored has one line for each body
\* line: the body line without one prefix at its start, or the empty line
\* for an empty body line; the lines after the closing line stay to be read.
C13_TextblockMargin ==
    [][parser.pc = "parse" =>
          \A n \in {NextTokens} :
             (~n.stop /\ n.err = "none" /\ BlockNext(n) /\ BlockClosers(n) # {}) =>
                BlockStep(n, BlockBody(n), BlockPrefix(n),
                          SubSeq(n.lines, BlockCloser(n) + 1, Len(n.lines)))]_vars

\* A block closed by a line indented by two spaces, with a body line
\* indented by three and one indented by two, has been stored without two
\* spaces at the start of each line, and the line after it has been read.
C13_Witness ==
    /\ parser.pc = "done"
    /\ Len(parser._lines) = 5
    /\ parser._lines[4] = <<" ", " ", "'", "'", "'">>
    /\ TreeOf(heap, parser.result) =
          [dict |-> (<<"a">> :> [str |-> <<" ", "a", "\n", "a">>])
                    @@ (<<"b">> :> [str |-> <<"8">>])]

\* C14: when the input ends while a mapping or sequence opened by { or [
\* is open, loads raises a PerkyFormatError and returns no tree.
C14_UnclosedContainer ==
    [][(parser.pc = "parse" /\ NextTokens.stop /\ Len(parser.frames) > 1) =>
          /\ parser'.pc = "raised"
          /\ parser'.err.kind = "PerkyFormatError"]_vars

\* C15: every exception that leaves loads is a PerkyFormatError, or the
\* error of the file system when an included file is missing.
C15_OneErrorKind ==
    parser.pc = "raised" =>
       parser.err.kind \in {"PerkyFormatError", "FileNotFoundError"}

\* C16: a step that raises leaves no entry of the failed parse in the root
\* the caller passed (it was empty), nor in the container an include
\* directive was refilling.
C16_NoPartialTree ==
    [][parser'.pc = "raised" =>
          /\ parser.caller # NoneVal => heap'[parser.caller.ref].items = <<>>
          /\ IncludeNext => heap'[Leaf] = heap[Leaf]]_vars

\* C17: while loads runs, the stack holds the containers of the calls of
\* _read_dict and _read_list in progress, outermost first, and its top is
\* the container the line read next belongs to; when loads has returned or
\* raised, the stack is empty.
C17_StackDiscipline ==
    /\ parser.pc = "parse" =>
          /\ parser.breadcrumbs = [i \in 1..Len(parser.frames) |-> parser.frames[i].id]
          /\ parser.breadcrumbs # <<>>
          /\ parser.breadcrumbs[1] = parser.root
    /\ parser.pc \in {"done", "raised"} => parser.breadcrumbs = <<>>

\* The tokens that start a value.
ValueStart ==
    {"STRING", "LEFT_CURLY_BRACE", "LEFT_SQUARE_BRACKET", "EMPTY_CURLY_BRACES",
     "EMPTY_SQUARE_BRACKETS", "TRIPLE_SINGLE_QUOTE", "TRIPLE_DOUBLE_QUOTE"}

\* The line read next by the loop of _read_dict is not a directive, a lone
\* } or a lone comment.
DataLineNext ==
    /\ Reading
    /\ Top(parser.frames).kind = "dict"
    /\ NextTokens.tokens[1].tok # "EQUALS"
    /\ ~(/\ Len(NextTokens.tokens) = 1
         /\ NextTokens.tokens[1].tok \in {"RIGHT_CURLY_BRACE", "COMMENT"})

\* Its tokens are STRING = or STRING = V for a token V that starts a value.
WellShaped ==
    /\ Len(NextTokens.tokens) \in 2..3
    /\ NextTokens.tokens[1].tok = "STRING"
    /\ NextTokens.tokens[2].tok = "EQUALS"
    /\ Len(NextTokens.tokens) = 3 => NextTokens.tokens[3].tok \in ValueStart

InvalidTokenSequence(e) ==
    /\ e.kind = "PerkyFormatError"
    /\ e.message.text =
          "Invalid token sequence: in dict, expected STRING = or STRING == VALUE or }"

\* C18: a data line of a mapping body of any other shape than STRING = or
\* STRING = V raises the invalid-token-sequence PerkyFormatError and changes
\* no container; a line of one of the two shapes does not raise it.
C18_MappingLineShape ==
    [][DataLineNext =>
          IF WellShaped THEN ~InvalidTokenSequence(parser'.err)
          ELSE /\ parser'.pc = "raised"
               /\ InvalidTokenSequence(parser'.err)
               /\ heap' = heap]_vars

\* C19: an entry with a string value whose key text the mapping does not
\* hold raises nothing and is stored under exactly the text of its STRING
\* token, the whitespace inside the quotes of a quoted key included.
C19_KeyIsTokenText ==
    [][(/\ EntryNext
        /\ Len(NextTokens.tokens) = 3 => NextTokens.tokens[3].tok = "STRING"
        /\ ~DictHas(heap[Leaf].items, NextTokens.tokens[1].val)) =>
          /\ parser'.pc = "parse"
          /\ KeysOf(heap'[Leaf].items) =
                KeysOf(heap[Leaf].items) \cup {NextTokens.tokens[1].val}]_vars

\* The line n read next is a lone closer: ] for the loop of _read_dict,
\* } for the loop of _read_list when own is FALSE; the closer of the
\* container being read when own is TRUE.
LoneCloser(n, own) ==
    /\ ~n.stop
    /\ n.err = "none"
    /\ Len(n.tokens) = 1
    /\ n.tokens[1].tok =
          IF (Top(parser.frames).kind = "dict") = own
          THEN "RIGHT_CURLY_BRACE" ELSE "RIGHT_SQUARE_BRACKET"

\* C28: a lone ] read in a mapping body and a lone } read in a sequence
\* body raise PerkyFormatError; the line does not end the body and
\* nothing is stored.
C28_OwnCloserOnly ==
    [][parser.pc = "parse" =>
          \A n \in {NextTokens} :
             LoneCloser(n, FALSE) =>
                /\ parser'.pc = "raised"
                /\ parser'.err.kind = "PerkyFormatError"
                /\ heap' = heap]_vars

\* C29: loads returns only when every line has been read; a lone } or ]
\* read while the root is the container being read raises.
C29_RootClosedByEndOnly ==
    [][parser.pc = "parse" =>
          /\ parser'.pc = "done" => parser'.lines = <<>>
          /\ \A n \in {NextTokens} :
                Len(parser.frames) = 1 /\ LoneCloser(n, TRUE) =>
                   /\ parser'.pc = "raised"
                   /\ parser'.err.kind = "PerkyFormatError"]_vars

\* C30: a text block that no line of the rest of the document closes
\* raises PerkyFormatError.
C30_UnclosedTextblock ==
    [][parser.pc = "parse" =>
          \A n \in {NextTokens} :
             (~n.stop /\ n.err = "none" /\ BlockNext(n) /\ BlockClosers(n) = {}) =>
                /\ parser'.pc = "raised"
                /\ parser'.err.kind = "PerkyFormatError"]_vars

(***************************************************************************)
(* The cursor's contract (C20)                                             *)
(***************************************************************************)
\* The calls agree with a cursor that is one string, pending: the
\* characters not yet read, the pushed ones before the rest of the text.
\* push(s) puts s before pending, next takes its first character or stops
\* when there is none, bool tells whether there is one and takes nothing,
\* drain takes it all.
RECURSIVE Agrees(_, _)
Agrees(pending, calls) ==
    IF calls = <<>> THEN TRUE
    ELSE LET call == Head(calls)
         IN  CASE call.op = "push" ->
                    Agrees(call.arg \o pending, Tail(calls))
               [] call.op = "next" ->
                    IF pending = <<>>
                    THEN call.stop /\ Agrees(<<>>, Tail(calls))
                    ELSE /\ ~call.stop
                         /\ call.ret = <<Head(pending)>>
                         /\ Agrees(Tail(pending), Tail(calls))
               [] call.op = "bool" ->
                    /\ call.stop = (pending = <<>>)
                    /\ Agrees(pending, Tail(calls))
               [] call.op = "drain" ->
                    /\ call.ret = pending
                    /\ Agrees(<<>>, Tail(calls))

\* C20: after any calls of next and push, what next yields and what drain
\* returns are the pushed strings not yet read, the one pushed last first,
\* each from left to right, and then the rest of the text; drain returns
\* what the calls of next would have yielded one by one and leaves nothing.
C20_PushbackOrder == cursor.pc = "run" => Agrees(cursor.s, cursor.calls)

\* On the text ab: a was read, dn pushed, d read, c pushed, and drain
\* returned cnb.
C20_Witness ==
    /\ cursor.pc = "run"
    /\ cursor.s = <<"a", "b">>
    /\ cursor.calls =
          <<Call("next", <<>>, <<"a">>, FALSE),
            Call("push", <<"d", "n">>, <<>>, FALSE),
            Call("next", <<>>, <<"d">>, FALSE),
            Call("push", <<"c">>, <<>>, FALSE),
            Call("drain", <<>>, <<"c", "n", "b">>, FALSE)>>
    /\ cursor.its = <<>>

\* The characters the calls of next yield from its until StopIteration.
RECURSIVE YieldAll(_)
YieldAll(its) ==
    Only({ IF n.stop THEN <<>> ELSE <<n.c>> \o YieldAll(n.its) :
           n \in {CurNext(its)} })

\* The call the step made.
LastCall == cursor'.calls[Len(cursor'.calls)]

\* The step is a call of op on the cursor.
CallNext(op) ==
    /\ cursor.pc = "run"
    /\ cursor'.pc = "run"
    /\ Len(cursor'.calls) = Len(cursor.calls) + 1
    /\ LastCall.op = op

\* C21: bool(cursor) leaves what the later calls of next and drain yield
\* as it was, also when the iterators on top are exhausted, and is True
\* iff a character remains; on an exhausted cursor next raises
\* StopIteration and the cursor stays false.
C21_BoolDoesNotConsume ==
    [][(CallNext("bool") =>
           /\ YieldAll(cursor'.its) = YieldAll(cursor.its)
           /\ CurDrain(cursor'.its).s = CurDrain(cursor.its).s
           /\ LastCall.stop = (YieldAll(cursor.its) = <<>>))
       /\ (CallNext("next") /\ YieldAll(cursor.its) = <<>> =>
              /\ LastCall.stop
              /\ YieldAll(cursor'.its) = <<>>
              /\ ~CurBool(cursor'.its).b)]_vars

\* On the text a: c was pushed and read, which left an exhausted iterator
\* on top; bool was True, a was read, and bool was False.
C21_Witness ==
    /\ cursor.pc = "run"
    /\ cursor.s = <<"a">>
    /\ cursor.calls =
          <<Call("push", <<"c">>, <<>>, FALSE),
            Call("next", <<>>, <<"c">>, FALSE),
            Call("bool", <<>>, <<>>, FALSE),
            Call("next", <<>>, <<"a">>, FALSE),
            Call("bool", <<>>, <<>>, TRUE)>>

(***************************************************************************)
(* The tokenizer's contract (C22, C23, C24, C27)                           *)
(***************************************************************************)
NotWhitespace(t) == t.tok # "WHITESPACE"

\* C22: tokenize(s, suppress_whitespace=True) yields no WHITESPACE token:
\* it yields the tokens of tokenize(s, suppress_whitespace=False) without
\* the WHITESPACE ones, in the same order, and ends the same way.
C22_SuppressionOnlyFilters ==
    lexer.pc \in {"done", "raised"} /\ lexer.suppress_whitespace =>
       \A r \in {tokenize(lexer.s, FALSE)} :
          /\ \A i \in 1..Len(lexer.toks) : lexer.toks[i].tok # "WHITESPACE"
          /\ lexer.toks = SelectSeq(r.toks, NotWhitespace)
          /\ lexer.err = r.err

\* The line a = 'b' # c: four tokens where the unsuppressed run yields
\* six, two of them WHITESPACE.
C22_Witness ==
    /\ lexer.pc = "done"
    /\ lexer.suppress_whitespace
    /\ lexer.s = <<"a", " ", "=", " ", "'", "b", "'", " ", "#", " ", "c">>
    /\ Len(lexer.toks) = 4
    /\ Len(tokenize(lexer.s, FALSE).toks) = 6

\* The turn starts at three quote characters of one kind in the text r
\* yet to be read.
AtTripleQuote(r) ==
    /\ Len(r) >= 3
    /\ r[1] \in {"'", "\""}
    /\ r[2] = r[1]
    /\ r[3] = r[1]

AllSpace(r) == \A i \in 1..Len(r) : IsSpace(r[i])

RECURSIVE Before(_, _)
Before(r, stops) ==
    IF r = <<>> \/ Head(r) \in stops THEN <<>>
    ELSE <<Head(r)>> \o Before(Tail(r), stops)

\* The turn reads an unquoted string: r, the text yet to be read, starts
\* with a character that is neither whitespace nor the start of an operator.
AtUnquoted(r) ==
    /\ lexer.pc = "loop"
    /\ r # <<>>
    /\ ~IsSpace(r[1])
    /\ r[1] \notin token_first_characters

\* The turn yielded the characters of r before the first one in stops,
\* right-trimmed, as one STRING token, and left the rest of r to be read.
UnquotedUpTo(r, stops) ==
    \A v \in {RStrip(Before(r, stops))} :
       /\ lexer'.pc = "loop"
       /\ lexer'.toks = Append(lexer.toks, Tok("STRING", v))
       /\ YieldAll(lexer'.its) = SubSeq(r, Len(Before(r, stops)) + 1, Len(r))
       /\ v # <<>>
       /\ ~IsSpace(v[1])
       /\ ~IsSpace(v[Len(v)])
       /\ \A i \in 1..Len(v) : v[i] \notin stops

\* C24 as stated: an unquoted string stops at the first character of
\* = { } [ ] # ' ", which starts the next token; it is right-trimmed, not
\* empty, and has no whitespace at either end.
C24_UnquotedStopsAtOperator ==
    [][\A r \in {YieldAll(lexer.its)} :
          AtUnquoted(r) => UnquotedUpTo(r, {"=", "{", "}", "[", "]", "#", "'", "\""})]_vars

\* C24 amended: an unquoted string stops at the first character of
\* = { } [ ] #, which starts the next token; a quote character after the
\* first character is part of the string; it is right-trimmed, not empty,
\* and has no whitespace at either end.
C24_UnquotedStopsAtNonQuote ==
    [][\A r \in {YieldAll(lexer.its)} :
          AtUnquoted(r) => UnquotedUpTo(r, {"=", "{", "}", "[", "]", "#"})]_vars

\* The line a' =: the string a' was yielded, with its quote and without
\* the space, and = is next.
C24_Witness ==
    /\ lexer.pc = "loop"
    /\ lexer.s = <<"a", "'", " ", "=">>
    /\ lexer.toks = <<Tok("STRING", <<"a", "'">>)>>
    /\ YieldAll(lexer.its) = <<"=">>

\* C27: every turn of the main loop leaves fewer characters to be read
\* than it found, the turns that push characters back included, and the
\* loop ends when none is left.
C27_TurnsConsume ==
    [][lexer.pc = "loop" /\ lexer' # lexer =>
          IF YieldAll(lexer.its) = <<>>
          THEN lexer'.pc = "done"
          ELSE Len(YieldAll(lexer'.its)) < Len(YieldAll(lexer.its))]_vars

\* The line { a: the look-ahead for {} read the space and a and pushed
\* them back; { was yielded and the space and a are left.
C27_Witness ==
    /\ lexer.pc = "loop"
    /\ lexer.s = <<"{", " ", "a">>
    /\ lexer.toks = <<Tok("LEFT_CURLY_BRACE", <<"{">>)>>
    /\ YieldAll(lexer.its) = <<" ", "a">>
    /\ Len(lexer.its) > 1

(***************************************************************************)
(* The line parser's contract (C25)                                        *)
(***************************************************************************)
\* The call the step made on the LineParser.
LastRead == reader'.calls[Len(reader'.calls)]

\* The step is a call of op on the LineParser.
ReadNext(op) ==
    /\ reader.pc = "run"
    /\ reader'.pc = "run"
    /\ Len(reader'.calls) = Len(reader.calls) + 1
    /\ LastRead.op = op

\* C25: bool(lp) reads nothing and is True iff a line has yet to be read;
\* when all lines are read it is False and next_line returns instead of
\* raising, on every call.
C25_AvailabilityAgrees ==
    [][/\ ReadNext("bool") =>
             /\ reader'.lines = reader.lines
             /\ LastRead.outcome = "returned"
             /\ LastRead.ret = (reader.lines # <<>>)
       /\ ReadNext("next_line") /\ reader.lines = <<>> =>
             /\ LastRead.outcome = "returned"
             /\ reader'.lines = <<>>]_vars

(***************************************************************************)
(* The serializer's contract (C1, C2, C3)                                  *)
(***************************************************************************)
\* loads has returned or an exception has ended the round trip.
TripLoadsOver == trip.pc \in {"redump", "done", "raised"}

\* C1: loads(dumps(d)) returns a tree equal to d.
C1_RoundTrip ==
    TripLoadsOver =>
       /\ trip.back # NoneVal
       /\ TreeOf(heap, trip.back) = TreeOf(heap, trip.d)

\* C2: when dumps(d) returns a text, dumps(loads(text)) returns the same
\* text.
C2_DumpsIdempotent ==
    (trip.pc \in {"done", "raised"} /\ trip.text # NoneVal) => trip.text2 = trip.text

\* C3: for a character c that is printable and not whitespace, dumps({c: c})
\* returns a text from which loads returns {c: c}.
C3_KeysQuotedAsValues ==
    \A c \in TripChars :
       (/\ TripLoadsOver
        /\ TreeOf(heap, trip.d) = [dict |-> (<<c>> :> [str |-> <<c>>])])
       => /\ trip.text # NoneVal
          /\ trip.back # NoneVal
          /\ TreeOf(heap, trip.back) = [dict |-> (<<c>> :> [str |-> <<c>>])]

\* The number of spaces line starts with.
RECURSIVE LeadingSpaces(_)
LeadingSpaces(line) ==
    IF line # <<>> /\ Head(line) = " " THEN 1 + LeadingSpaces(Tail(line)) ELSE 0

\* The lines from the i-th on are laid out under the open containers,
\* whose openers are indented by opened (innermost last): a closer is
\* indented as its opener, any other line one unit deeper than the
\* innermost opener, and every container is closed at the end.
RECURSIVE LaidOut(_, _, _)
LaidOut(lines, i, opened) ==
    IF i > Len(lines) THEN opened = <<>>
    ELSE IF LStrip(lines[i]) \in {<<"}">>, <<"]">>}
    THEN /\ opened # <<>>
         /\ LeadingSpaces(lines[i]) = opened[Len(opened)]
         /\ LaidOut(lines, i + 1, SubSeq(opened, 1, Len(opened) - 1))
    ELSE /\ LeadingSpaces(lines[i]) =
               IF opened = <<>> THEN 0
               ELSE opened[Len(opened)] + Len(SerializerPrefix)
         /\ LaidOut(lines, i + 1,
                    IF lines[i] # <<>> /\ lines[i][Len(lines[i])] \in {"{", "["}
                    THEN Append(opened, LeadingSpaces(lines[i]))
                    ELSE opened)

\* C26: in the text dumps returned, for a tree with no text block, the
\* closing } or ] of a nested dict or list is on a line of its own,
\* indented as the line that opened it, with the lines between them one
\* unit deeper; the indent of the Serializer is 0 again after serialize.
C26_ClosersAtOuterIndent ==
    trip.pc = "loads" /\ (\A l \in {SplitLines(trip.text.str)} :
                             \A i \in 1..Len(l) : LStrip(l[i]) # <<"\"", "\"", "\"">>) =>
       /\ LaidOut(SplitLines(trip.text.str), 1, <<>>)
       /\ serialize(heap, SerializerNew, heap[trip.d.ref].items, 1).indent = 0

====
